---- MODULE Spec2Model ----
(***************************************************************************)
(* A model of makehtml.py (DocxToHtmlConverter): the List Builder          *)
(* (_create_list_html / _build_nested_list), the Hyperlink Extractor       *)
(* (_extract_hyperlinks / _extract_field_hyperlinks) and the Run           *)
(* Consolidator (_process_runs).                                           *)
(*                                                                         *)
(* Strings are sequences of tokens.  A token is either one character of    *)
(* document text or one literal piece of markup written by an f-string of  *)
(* the source ("<ul>", "<li>", "<strong>", ...).  A multi-line string is a *)
(* sequence of lines, a line being its leading blanks (ind) and its        *)
(* tokens (s).                                                             *)
(***************************************************************************)
EXTENDS Integers, Sequences, FiniteSets, TLC

VARIABLES
    items,      \* List Builder: the item buffer passed to _create_list_html
    frames,     \* List Builder: the call stack of _build_nested_list frames
    html,       \* List Builder: the string returned by _create_list_html
    pc,         \* List Builder: "idle" | "start" | "run" | "done" | "error"
    steps,      \* List Builder: loop iterations and returns executed so far
    para,       \* the paragraph at hand: its w:r elements and w:hyperlink wrappers
    hyperlinks, \* Hyperlink Extractor: the span list built so far
    scan,       \* Hyperlink Extractor: i, field_idx and the control position
    walk,       \* Run Consolidator: the state of the run walk of _process_runs
    doc,        \* Block Dispatcher: the body, the position in it, the list buffer, html_parts
    call        \* a call of a helper function: its arguments and its result

vars == <<items, frames, html, pc, steps, para, hyperlinks, scan, walk, doc, call>>

(***************************************************************************)
(* Bounds of the model.                                                    *)
(***************************************************************************)
MaxItems == 4
MaxLevel == 2
MaxShift == 1
MaxFieldSegs == 2
MaxRunSegs == 3
MaxBlocks == 3
MaxText == 3
MaxThreshold == 3
MaxRules == 2
MaxRows == 3

(***************************************************************************)
(* Lines and strings of lines.                                             *)
(***************************************************************************)
Line(ind, s) == [ind |-> ind, s |-> s]

\* '\n'.join(parts): every part is a sequence of lines (a part holding
\* nested markup holds several), so the joined string is their sequence.
Join(parts) == parts

\* str.split('\n'): the lines of a string; the empty string splits into
\* one empty line.
Split(str) == IF str = <<>> THEN <<Line(0, <<>>)>> ELSE str

\* '\n'.join('    ' + line for line in nested_html.split('\n'))
Indent(nested_html) ==
    LET ls == Split(nested_html)
    IN  [k \in 1..Len(ls) |-> Line(ls[k].ind + 4, ls[k].s)]

\* tag = 'ul' if current_list_type == 'bullet' else 'ol'; f'<{tag}>'
OpenTag(list_type) == IF list_type = "bullet" THEN "<ul>" ELSE "<ol>"

\* f'</{tag}>'
CloseTag(list_type) == IF list_type = "bullet" THEN "</ul>" ELSE "</ol>"

(***************************************************************************)
(* The List Builder.  A frame is one activation of _build_nested_list; i   *)
(* is the 0-based index of the source, so items[i] of the source is        *)
(* its[i + 1] here.                                                        *)
(***************************************************************************)
NewFrame(start_index, current_level) ==
    [i |-> start_index, current_level |-> current_level, html_parts |-> <<>>,
     current_list_type |-> "none", list_started |-> FALSE]

Top(fs) == fs[Len(fs)]

\* min(item[0] for item in items)
MinLevel(its) ==
    CHOOSE l \in {its[k].level : k \in 1..Len(its)} :
        \A k \in 1..Len(its) : l <= its[k].level

\* BaseLevel with the outermost frame built for level 0 whatever the buffer.
BaseLevelZero(its) == 0

\* The level the outermost frame is built for.
BaseLevel(its) == MinLevel(its)

\* _create_list_html, up to the outermost call: the machine before its
\* first step.
StartMachine(its) ==
    IF its = <<>>
    THEN [frames |-> <<>>, html |-> <<>>, pc |-> "done"]
    ELSE [frames |-> <<NewFrame(0, BaseLevel(its))>>, html |-> <<>>, pc |-> "run"]

\* The parts returned as they are, the open list not closed.
ClosedPartsLeftOpen(f) == f.html_parts

\* `if list_started and current_list_type:` append the closing tag.
ClosedParts(f) ==
    IF f.list_started /\ f.current_list_type # "none"
    THEN Append(f.html_parts, Line(0, <<CloseTag(f.current_list_type)>>))
    ELSE f.html_parts

\* ResumeIndex with the returned index dropped: the caller steps by one.
ResumeIndexPlusOne(caller_i, next_i) == caller_i + 1

\* The index at which the calling frame goes on after the recursive call
\* returned next_i.
ResumeIndex(caller_i, next_i) == next_i

\* return ('\n'.join(html_parts), i): to the calling frame, which appends
\* the indented sub-list and '  </li>' and goes on at the returned index,
\* or, from the outermost frame, to _create_list_html, which returns html.
ReturnFrom(m, f) ==
    LET n == Len(m.frames)
        nested_html == Join(ClosedParts(f))
    IN  IF n = 1
        THEN [frames |-> <<>>, html |-> nested_html, pc |-> "done"]
        ELSE LET caller == m.frames[n - 1]
                 resumed == [caller EXCEPT
                                !.html_parts = (@ \o Indent(nested_html))
                                                 \o <<Line(2, <<"</li>">>)>>,
                                !.i = ResumeIndex(caller.i, f.i)]
             IN  [frames |-> Append(SubSeq(m.frames, 1, n - 2), resumed),
                  html |-> m.html, pc |-> "run"]

\* The list element opened for the first item is kept for every kind.
WithListOpenOnce(f, item_type) ==
    IF ~f.list_started
    THEN [f EXCEPT !.current_list_type = item_type,
                   !.html_parts = Append(@, Line(0, <<OpenTag(item_type)>>)),
                   !.list_started = TRUE]
    ELSE f

\* Lines 254-266: open the list element for the item's kind when none is
\* open in this frame, or close the open one and open another when the
\* kind differs.
WithListOpen(f, item_type) ==
    IF ~f.list_started
    THEN [f EXCEPT !.current_list_type = item_type,
                   !.html_parts = Append(@, Line(0, <<OpenTag(item_type)>>)),
                   !.list_started = TRUE]
    ELSE IF f.current_list_type # item_type
    THEN [f EXCEPT !.html_parts = @ \o <<Line(0, <<CloseTag(f.current_list_type)>>),
                                         Line(0, <<OpenTag(item_type)>>)>>,
                   !.current_list_type = item_type]
    ELSE f

\* HasNext off by one: `i + 1 <= len(items)`.
HasNextOffByOne(its, i) == i + 1 <= Len(its)

\* `i + 1 < len(items)`: the guard of the look-ahead of line 269.
HasNext(its, i) == i + 1 < Len(its)

\* Whether items[idx] exists (a Python list raises IndexError otherwise).
InRange(its, idx) == 0 <= idx /\ idx < Len(its)

\* `while i < len(items)` is false: fall out of the loop.
AtEnd(its, f) == f.i >= Len(its)

\* `level < current_level`
GoingUp(its, f) == ~AtEnd(its, f) /\ its[f.i + 1].level < f.current_level

\* `level == current_level`
SameLevel(its, f) == ~AtEnd(its, f) /\ its[f.i + 1].level = f.current_level

\* `else:  # level > current_level`
Deeper(its, f) == ~AtEnd(its, f) /\ its[f.i + 1].level > f.current_level

\* `if i + 1 < len(items) and items[i + 1][0] > level`
NextIsNested(its, f) ==
    /\ SameLevel(its, f)
    /\ HasNext(its, f.i)
    /\ (InRange(its, f.i + 1) => its[f.i + 2].level > its[f.i + 1].level)

\* Lines 245-250 (an item of a lower level), 284-294 (the defensive break)
\* and 289-294 (the end of the items): close the list, return.
StepReturn(its, m) == ReturnFrom(m, Top(m.frames))

\* Lines 279-282: a simple list item.
StepSimple(its, m) ==
    LET f == Top(m.frames)
        item == its[f.i + 1]
        g == WithListOpen(f, item.kind)
        h == [g EXCEPT !.html_parts =
                           Append(@, Line(2, (<<"<li>">> \o item.text) \o <<"</li>">>)),
                       !.i = @ + 1]
    IN  [m EXCEPT !.frames = [@ EXCEPT ![Len(@)] = h]]

\* Lines 269-273: the item gets nested content; call _build_nested_list
\* for the next item, at the next item's level.  Reading items[i + 1]
\* beyond the end of the list raises IndexError.
StepNested(its, m) ==
    LET f == Top(m.frames)
        item == its[f.i + 1]
        g == WithListOpen(f, item.kind)
        h == [g EXCEPT !.html_parts = Append(@, Line(2, <<"<li>">> \o item.text))]
    IN  IF ~InRange(its, f.i + 1)
        THEN [m EXCEPT !.pc = "error"]
        ELSE [m EXCEPT !.frames = Append([@ EXCEPT ![Len(@)] = h],
                                         NewFrame(f.i + 1, its[f.i + 2].level))]

\* One loop iteration, or one return, of the frame on top of the stack.
BuildStep(its, m) ==
    LET f == Top(m.frames)
    IN  IF AtEnd(its, f) \/ GoingUp(its, f) \/ Deeper(its, f)
        THEN StepReturn(its, m)
        ELSE IF NextIsNested(its, f) THEN StepNested(its, m) ELSE StepSimple(its, m)

RECURSIVE BuildRun(_, _)
BuildRun(its, m) == IF m.pc # "run" THEN m ELSE BuildRun(its, BuildStep(its, m))

\* _create_list_html(items, list_type): the string returned.
CreateListHtml(its) == BuildRun(its, StartMachine(its)).html

(***************************************************************************)
(* The List Builder as a state machine: one action per branch of the loop. *)
(***************************************************************************)
Kinds == {"bullet", "number"}

\* The rendered text of the k-th item: the builder copies it and never
\* looks into it, so one distinct token per position stands for it.
TextOf(k) == <<<<"A">>, <<"B">>, <<"C">>, <<"D">>, <<"E">>, <<"F">>>>[k]

Buffers ==
    UNION {[1..n -> [level : 0..MaxLevel, kind : Kinds]] : n \in 0..MaxItems}

ItemsOf(b) == [k \in 1..Len(b) |-> [level |-> b[k].level, kind |-> b[k].kind, text |-> TextOf(k)]]

\* No document is being dispatched and no helper function is being called.
NoDocument ==
    /\ doc = [pc |-> "idle"]
    /\ call = [pc |-> "idle"]

\* No paragraph is at hand while the List Builder runs.
NoParagraph ==
    /\ para = [runs |-> <<>>, wrappers |-> <<>>]
    /\ hyperlinks = <<>>
    /\ scan = [i |-> 0, field_idx |-> 0, pc |-> "idle"]
    /\ walk = [pc |-> "idle"]

ListInit ==
    /\ items \in {ItemsOf(b) : b \in Buffers}
    /\ frames = <<>>
    /\ html = <<>>
    /\ pc = "start"
    /\ steps = 0
    /\ NoParagraph
    /\ NoDocument

Machine == [frames |-> frames, html |-> html, pc |-> pc]

Becomes(m) ==
    /\ frames' = m.frames
    /\ html' = m.html
    /\ pc' = m.pc
    /\ UNCHANGED <<items, para, hyperlinks, scan, walk, doc, call>>

ListStart ==
    /\ pc = "start"
    /\ Becomes(StartMachine(items))
    /\ UNCHANGED steps

ListEnd ==
    /\ pc = "run"
    /\ AtEnd(items, Top(frames))
    /\ Becomes(StepReturn(items, Machine))
    /\ steps' = steps + 1

ListUp ==
    /\ pc = "run"
    /\ GoingUp(items, Top(frames))
    /\ Becomes(StepReturn(items, Machine))
    /\ steps' = steps + 1

ListBreak ==
    /\ pc = "run"
    /\ Deeper(items, Top(frames))
    /\ Becomes(StepReturn(items, Machine))
    /\ steps' = steps + 1

ListNested ==
    /\ pc = "run"
    /\ NextIsNested(items, Top(frames))
    /\ Becomes(StepNested(items, Machine))
    /\ steps' = steps + 1

ListSimple ==
    /\ pc = "run"
    /\ SameLevel(items, Top(frames))
    /\ ~NextIsNested(items, Top(frames))
    /\ Becomes(StepSimple(items, Machine))
    /\ steps' = steps + 1

ListNext == ListStart \/ ListEnd \/ ListUp \/ ListBreak \/ ListNested \/ ListSimple

SpecList == ListInit /\ [][ListNext]_vars

(***************************************************************************)
(* Reading a list string back: its tokens, and where its <li> are.         *)
(***************************************************************************)
RECURSIVE Tokens(_)
Tokens(str) == IF str = <<>> THEN <<>> ELSE Head(str).s \o Tokens(Tail(str))

LiPos(toks) == SelectSeq([k \in 1..Len(toks) |-> k], LAMBDA k : toks[k] = "<li>")

\* The text each <li> carries, in output order.
LiTexts(toks) ==
    LET lp == LiPos(toks) IN [j \in 1..Len(lp) |-> <<toks[lp[j] + 1]>>]

\* <li> minus </li> among toks[p..q].
LiBalance(toks, p, q) ==
    Cardinality({k \in p..q : toks[k] = "<li>"}) - Cardinality({k \in p..q : toks[k] = "</li>"})

\* The position of the </li> that closes the <li> at position p (0: none).
LiClose(toks, p) ==
    LET cs == {q \in p..Len(toks) : toks[q] = "</li>" /\ LiBalance(toks, p, q) = 0}
    IN  IF cs = {} THEN 0 ELSE CHOOSE q \in cs : \A r \in cs : q <= r

Shift(its, k) == [j \in 1..Len(its) |-> [its[j] EXCEPT !.level = @ + k]]

ExampleItems ==
    <<[level |-> 0, kind |-> "bullet", text |-> <<"A">>],
      [level |-> 1, kind |-> "number", text |-> <<"B">>],
      [level |-> 1, kind |-> "number", text |-> <<"C">>],
      [level |-> 0, kind |-> "bullet", text |-> <<"D">>]>>

ExampleTokens ==
    <<"<ul>", "<li>", "A", "<ol>", "<li>", "B", "</li>", "<li>", "C", "</li>",
      "</ol>", "</li>", "<li>", "D", "</li>", "</ul>">>

(***************************************************************************)
(* C1: for every non-empty buffer, whatever its levels, the string         *)
(* returned by _create_list_html holds exactly one <li> for each buffered  *)
(* item, with that item's text, in buffer order.                           *)
(* Fails: a buffer whose first item is above the minimum level, such as    *)
(* levels <<1, 0>>, makes the outermost frame break at index 0.            *)
(***************************************************************************)
C1_EveryItemOnce ==
    (pc = "done" /\ items # <<>>)
        => LiTexts(Tokens(html)) = [k \in 1..Len(items) |-> items[k].text]

(***************************************************************************)
(* C2: each item emitted is emitted in buffer order; when the next item    *)
(* is deeper, the sub-list of the next item's kind, starting with the      *)
(* next item, follows the item's text inside its <li> and ends right       *)
(* before its </li>; otherwise the item is the simple <li>text</li>.  The  *)
(* example buffer gives ul[ li A ol[ li B, li C ], li D ].                 *)
(***************************************************************************)
C2_Nesting ==
    pc = "done" =>
        LET toks == Tokens(html)
            lp == LiPos(toks)
        IN  /\ Len(lp) <= Len(items)
            /\ \A j \in 1..Len(lp) :
                /\ <<toks[lp[j] + 1]>> = items[j].text
                /\ IF j < Len(items) /\ items[j + 1].level > items[j].level
                   THEN /\ toks[lp[j] + 2] = OpenTag(items[j + 1].kind)
                        /\ j + 1 <= Len(lp)
                        /\ lp[j + 1] = lp[j] + 3
                        /\ LiClose(toks, lp[j]) > LiClose(toks, lp[j + 1])
                        /\ toks[LiClose(toks, lp[j]) - 1] \in {"</ul>", "</ol>"}
                   ELSE toks[lp[j] + 2] = "</li>"
            /\ (items = ExampleItems => toks = ExampleTokens)

C2_Witness == pc = "done" /\ items = ExampleItems /\ Tokens(html) = ExampleTokens

(***************************************************************************)
(* C3: _create_list_html ends, without an IndexError, for every buffer:    *)
(* no state is an error, every running state has a next step, and the      *)
(* loop iterations and returns number at most two per item.                *)
(***************************************************************************)
C3_Terminates ==
    /\ pc # "error"
    /\ steps <= 2 * Len(items)
    /\ pc = "run" => (frames # <<>> /\ ENABLED ListNext)
    /\ pc = "done" => frames = <<>>

C3_Witness ==
    /\ pc = "done"
    /\ Len(items) >= 3
    /\ items[1].level = 2
    /\ items[2].level = 0
    /\ items[3].level = 2

(***************************************************************************)
(* C4: adding one constant to every level of the buffer leaves the string  *)
(* returned by _create_list_html unchanged.                                *)
(***************************************************************************)
C4_ShiftInvariant ==
    (pc = "done" /\ items # <<>>) =>
        \A k \in (0 - MinLevel(items))..MaxShift : CreateListHtml(Shift(items, k)) = html

C4_Witness ==
    /\ pc = "done"
    /\ items # <<>>
    /\ MinLevel(items) > 0
    /\ Len(LiPos(Tokens(html))) = Len(items)
    /\ Len(items) >= 2

(***************************************************************************)
(* Paragraphs.  A paragraph is the sequence of its w:r elements in         *)
(* document order (what findall('.//w:r') returns) and the sequence of     *)
(* its w:hyperlink elements (what findall('.//w:hyperlink') returns).  A   *)
(* run element has                                                         *)
(*   fld      the fldCharType of its w:fldChar, "none" without one,        *)
(*   instr    the words of its w:instrText, <<>> without one,              *)
(*   t        the text of its w:t elements (run.text),                     *)
(*   wrapper  the 1-based position of the w:hyperlink element it lies in,  *)
(*            0 for a direct child of the paragraph,                       *)
(*   bold, italic, underline   the flags of run.bold, ...                  *)
(* and is identified by its position.  A wrapper has the attributes r_id   *)
(* and anchor ("" when absent) and the element's text.                     *)
(***************************************************************************)
Run(fld, instr, t, bold, italic, underline) ==
    [fld |-> fld, instr |-> instr, t |-> t, wrapper |-> 0,
     bold |-> bold, italic |-> italic, underline |-> underline]

TextRun(t) == Run("none", <<>>, t, FALSE, FALSE, FALSE)

Marker(fld) == Run(fld, <<>>, <<>>, FALSE, FALSE, FALSE)

InstrRun(instr) == Run("none", instr, <<>>, FALSE, FALSE, FALSE)

\* A word of an instruction, and a double-quoted group of it.
Word(w) == [quoted |-> FALSE, v |-> <<w>>]

Quoted(v) == [quoted |-> TRUE, v |-> v]

Wrapper(r_id, anchor, text) == [r_id |-> r_id, anchor |-> anchor, text |-> text]

\* paragraph.part.rels: the relationship ids that resolve, with target_ref.
Rels == [r \in {"rId1"} |-> <<"http://x">>]

\* No URL (None).
NoUrl == <<>>

(***************************************************************************)
(* The Hyperlink Extractor.  A span is (link_id, url, link_runs,           *)
(* link_text): link_runs holds the positions of the member run elements.   *)
(* An identity f'{name}_{n}' is the pair <<name, n>>: n is a decimal       *)
(* number, so two such strings are equal exactly when the pairs are.       *)
(***************************************************************************)
Span(link_id, url, link_runs, link_text) ==
    [id |-> link_id, url |-> url, runs |-> link_runs, text |-> link_text]

\* Lines 494-502: the target of a wrapper, from its relationship id
\* (a failed lookup gives None) or else from its anchor.
WrapperUrl(w) ==
    LET resolved == IF w.r_id # "" /\ w.r_id \in DOMAIN Rels THEN Rels[w.r_id] ELSE NoUrl
    IN  IF resolved = NoUrl /\ w.anchor # "" THEN <<"#", w.anchor>> ELSE resolved

\* hyperlink.findall('.//w:r'): the run elements inside wrapper number k.
WrapperRuns(p, k) ==
    SelectSeq([n \in 1..Len(p.runs) |-> n], LAMBDA n : p.runs[n].wrapper = k)

\* Lines 490-509: the spans of the wrappers from position k on; idx of
\* the source is k - 1.
RECURSIVE ExplicitFrom(_, _)
ExplicitFrom(p, k) ==
    IF k > Len(p.wrappers) THEN <<>>
    ELSE LET w == p.wrappers[k]
             url == WrapperUrl(w)
             name == IF w.r_id # "" THEN w.r_id ELSE w.anchor
         IN  (IF url # NoUrl
              THEN <<Span(<<name, k - 1>>, url, WrapperRuns(p, k), w.text)>>
              ELSE <<>>) \o ExplicitFrom(p, k + 1)

ExplicitSpans(p) == ExplicitFrom(p, 1)

\* instr_text.startswith('HYPERLINK')
IsHyperlinkInstr(r) == r.instr # <<>> /\ r.instr[1] = Word("HYPERLINK")

\* The last quoted group of the instruction instead of the first one.
MatchUrlLast(instr) ==
    LET hits == {k \in 1..Len(instr) : instr[k].quoted /\ instr[k].v # <<>>}
    IN  IF hits = {} THEN NoUrl
        ELSE instr[CHOOSE k \in hits : \A h \in hits : k >= h].v

\* re.search(r'HYPERLINK\s+"([^"]+)"', instr_text): the first non-empty
\* quoted group that directly follows the keyword; None without a match.
MatchUrl(instr) ==
    LET hits == {k \in 1..(Len(instr) - 1) :
                    /\ instr[k] = Word("HYPERLINK")
                    /\ instr[k + 1].quoted
                    /\ instr[k + 1].v # <<>>}
    IN  IF hits = {} THEN NoUrl
        ELSE instr[(CHOOSE k \in hits : \A h \in hits : k <= h) + 1].v

\* Lines 549-570: from run j on, look for the HYPERLINK instruction; stop
\* at it, at a separate or end marker, or at the end of the runs.
RECURSIVE FindInstruction(_, _)
FindInstruction(all_runs, j) ==
    IF j >= Len(all_runs) THEN [url |-> NoUrl, j |-> j]
    ELSE LET instr_run == all_runs[j + 1]
         IN  IF IsHyperlinkInstr(instr_run)
             THEN [url |-> MatchUrl(instr_run.instr), j |-> j]
             ELSE IF instr_run.fld \in {"separate", "end"}
             THEN [url |-> NoUrl, j |-> j]
             ELSE FindInstruction(all_runs, j + 1)

\* Lines 575-582: the index after the next separate marker.
RECURSIVE FindSeparator(_, _)
FindSeparator(all_runs, j) ==
    IF j >= Len(all_runs) THEN j
    ELSE IF all_runs[j + 1].fld = "separate" THEN j + 1
    ELSE FindSeparator(all_runs, j + 1)

\* Lines 585-595: the runs up to the next end marker are the link text.
RECURSIVE CollectLinkRuns(_, _, _)
CollectLinkRuns(all_runs, j, link_runs) ==
    IF j >= Len(all_runs) \/ all_runs[j + 1].fld = "end"
    THEN [link_runs |-> link_runs, j |-> j]
    ELSE CollectLinkRuns(all_runs, j + 1, Append(link_runs, j + 1))

\* Lines 600-603: the text of the w:t elements of the link runs.
RECURSIVE LinkText(_, _)
LinkText(all_runs, link_runs) ==
    IF link_runs = <<>> THEN <<>>
    ELSE all_runs[Head(link_runs)].t \o LinkText(all_runs, Tail(link_runs))

\* Lines 542-570: the field that begins at run i, as far as its URL.
FieldAt(all_runs, i) == FindInstruction(all_runs, i + 1)

\* Lines 572-595: the link runs of a field whose instruction is run j.
FieldRuns(all_runs, j) == CollectLinkRuns(all_runs, FindSeparator(all_runs, j), <<>>)

\* `fld_char is not None and fldCharType == 'begin'`
IsBegin(all_runs, i) == all_runs[i + 1].fld = "begin"

\* One iteration of the loop of lines 536-611 on [hyperlinks, i, field_idx].
FieldStep(all_runs, st) ==
    IF ~IsBegin(all_runs, st.i) \/ FieldAt(all_runs, st.i).url = NoUrl
    THEN [st EXCEPT !.i = @ + 1]
    ELSE LET f == FieldAt(all_runs, st.i)
             c == FieldRuns(all_runs, f.j)
         IN  IF c.link_runs # <<>>
             THEN [hyperlinks |-> Append(st.hyperlinks,
                                         Span(<<"field", st.field_idx>>, f.url, c.link_runs,
                                              LinkText(all_runs, c.link_runs))),
                   i |-> c.j + 1,
                   field_idx |-> st.field_idx + 1]
             ELSE [st EXCEPT !.i = c.j + 1]

RECURSIVE FieldScan(_, _)
FieldScan(all_runs, st) ==
    IF st.i >= Len(all_runs) THEN st.hyperlinks ELSE FieldScan(all_runs, FieldStep(all_runs, st))

\* _extract_field_hyperlinks(paragraph)
ExtractFieldHyperlinks(p) == FieldScan(p.runs, [hyperlinks |-> <<>>, i |-> 0, field_idx |-> 0])

\* _extract_hyperlinks(paragraph): wrapper spans, then field-code spans.
ExtractHyperlinks(p) == ExplicitSpans(p) \o ExtractFieldHyperlinks(p)

(***************************************************************************)
(* The paragraphs the extractor is run on: up to MaxFieldSegs pieces, each *)
(* a lone run, a wrapper, or a field made of a head (begin marker and      *)
(* instruction runs) and a tail (separate marker, text runs, end marker),  *)
(* well-formed or not.                                                     *)
(***************************************************************************)
Piece(runs, wrappers) == [runs |-> runs, wrappers |-> wrappers]

\* A run element placed inside the piece's wrapper.
Wrapped(r) == [r EXCEPT !.wrapper = 1]

\* The paragraph p followed by the piece s.
Followed(p, s) ==
    LET base == Len(p.wrappers)
    IN  [runs |-> p.runs \o [k \in 1..Len(s.runs) |->
                                [s.runs[k] EXCEPT !.wrapper = IF @ = 0 THEN 0 ELSE @ + base]],
         wrappers |-> p.wrappers \o s.wrappers]

RECURSIVE Composed(_)
Composed(pieces) ==
    IF pieces = <<>> THEN [runs |-> <<>>, wrappers |-> <<>>]
    ELSE Followed(Composed(SubSeq(pieces, 1, Len(pieces) - 1)), pieces[Len(pieces)])

ParagraphsOf(shapes, n) == {Composed(ps) : ps \in UNION {[1..k -> shapes] : k \in 0..n}}

UrlY == <<"http://y">>

UrlV == <<"u", "&", "v">>

HyperlinkY == <<Word("HYPERLINK"), Quoted(UrlY)>>

HyperlinkV == <<Word("HYPERLINK"), Quoted(UrlV), Word("\\o"), Quoted(<<"tip">>)>>

HyperlinkLocal == <<Word("HYPERLINK"), Word("\\l"), Quoted(<<"top">>)>>

PageRef == <<Word("PAGEREF"), Word("_Toc1")>>

FieldHeads ==
    {<<Marker("begin"), InstrRun(HyperlinkY)>>,
     <<Marker("begin"), InstrRun(HyperlinkV)>>,
     <<Marker("begin"), InstrRun(HyperlinkLocal)>>,
     <<Marker("begin"), InstrRun(PageRef)>>,
     <<Marker("begin"), InstrRun(PageRef), InstrRun(HyperlinkY)>>,
     <<Marker("begin")>>}

WrapperX == Wrapper("rId1", "", <<>>)

FieldTails ==
    {Piece(<<Marker("separate"), TextRun(<<"Go">>), Marker("end")>>, <<>>),
     Piece(<<Marker("separate"), TextRun(<<>>), TextRun(<<"y">>), Marker("end")>>, <<>>),
     Piece(<<Marker("separate"), Wrapped(TextRun(<<"w">>)), Marker("end")>>, <<WrapperX>>),
     Piece(<<TextRun(<<"Go">>), Marker("end")>>, <<>>),
     Piece(<<Marker("separate"), Marker("end")>>, <<>>),
     Piece(<<Marker("end")>>, <<>>),
     Piece(<<Marker("separate"), TextRun(<<"Go">>)>>, <<>>)}

FieldPieces == {Piece(h \o t.runs, t.wrappers) : h \in FieldHeads, t \in FieldTails}

WrapperPieces ==
    {Piece(<<Wrapped(TextRun(<<"x">>))>>, <<w>>) :
        w \in {WrapperX,
               Wrapper("", "field", <<>>),
               Wrapper("rId9", "top", <<>>),
               Wrapper("rId9", "", <<>>),
               Wrapper("", "", <<>>)}}
    \cup {Piece(<<>>, <<Wrapper("rId1", "", <<"Click">>)>>)}

LonePieces ==
    {Piece(<<r>>, <<>>) : r \in {TextRun(<<"a">>), Marker("separate"), Marker("end")}}

FieldParagraphs == ParagraphsOf(FieldPieces \cup WrapperPieces \cup LonePieces, MaxFieldSegs)

(***************************************************************************)
(* The Hyperlink Extractor as a state machine: the wrappers, then one      *)
(* action per way an iteration of the field scan can go.                   *)
(***************************************************************************)
\* No list is being built while a paragraph is at hand.
NoList ==
    /\ items = <<>>
    /\ frames = <<>>
    /\ html = <<>>
    /\ pc = "idle"
    /\ steps = 0

LinksInit ==
    /\ para \in FieldParagraphs
    /\ hyperlinks = <<>>
    /\ scan = [hyperlinks |-> <<>>, i |-> 0, field_idx |-> 0, pc |-> "explicit"]
    /\ walk = [pc |-> "idle"]
    /\ NoList
    /\ NoDocument

ScanState == [hyperlinks |-> scan.hyperlinks, i |-> scan.i, field_idx |-> scan.field_idx]

Scanned(st) ==
    /\ scan' = [hyperlinks |-> st.hyperlinks, i |-> st.i, field_idx |-> st.field_idx,
                pc |-> "fields"]
    /\ UNCHANGED <<items, frames, html, pc, steps, para, hyperlinks, walk, doc, call>>

Scanning == scan.pc = "fields" /\ scan.i < Len(para.runs)

LinkExplicit ==
    /\ scan.pc = "explicit"
    /\ hyperlinks' = ExplicitSpans(para)
    /\ scan' = [scan EXCEPT !.pc = "fields"]
    /\ UNCHANGED <<items, frames, html, pc, steps, para, walk, doc, call>>

FieldSkip ==
    /\ Scanning
    /\ ~IsBegin(para.runs, scan.i)
    /\ Scanned(FieldStep(para.runs, ScanState))

FieldNoUrl ==
    /\ Scanning
    /\ IsBegin(para.runs, scan.i)
    /\ FieldAt(para.runs, scan.i).url = NoUrl
    /\ Scanned(FieldStep(para.runs, ScanState))

FieldSpan ==
    /\ Scanning
    /\ IsBegin(para.runs, scan.i)
    /\ FieldAt(para.runs, scan.i).url # NoUrl
    /\ FieldRuns(para.runs, FieldAt(para.runs, scan.i).j).link_runs # <<>>
    /\ Scanned(FieldStep(para.runs, ScanState))

FieldNoRuns ==
    /\ Scanning
    /\ IsBegin(para.runs, scan.i)
    /\ FieldAt(para.runs, scan.i).url # NoUrl
    /\ FieldRuns(para.runs, FieldAt(para.runs, scan.i).j).link_runs = <<>>
    /\ Scanned(FieldStep(para.runs, ScanState))

LinksDone ==
    /\ scan.pc = "fields"
    /\ scan.i >= Len(para.runs)
    /\ hyperlinks' = hyperlinks \o scan.hyperlinks
    /\ scan' = [scan EXCEPT !.pc = "done"]
    /\ UNCHANGED <<items, frames, html, pc, steps, para, walk, doc, call>>

LinksNext ==
    LinkExplicit \/ FieldSkip \/ FieldNoUrl \/ FieldSpan \/ FieldNoRuns \/ LinksDone

SpecLinks == LinksInit /\ [][LinksNext]_vars

(***************************************************************************)
(* Reading a span list.                                                    *)
(***************************************************************************)
\* The positions p at which a well-formed HYPERLINK field begins: begin
\* marker, HYPERLINK "<url>" instruction, separate marker, one or more
\* text runs, end marker at position e.
WellFormedFields(all_runs) ==
    {pe \in (1..Len(all_runs)) \X (1..Len(all_runs)) :
        LET b == pe[1]
            e == pe[2]
        IN  /\ b + 4 <= e
            /\ all_runs[b].fld = "begin"
            /\ IsHyperlinkInstr(all_runs[b + 1])
            /\ MatchUrl(all_runs[b + 1].instr) # NoUrl
            /\ all_runs[b + 2].fld = "separate"
            /\ all_runs[e].fld = "end"
            /\ \A k \in (b + 3)..(e - 1) :
                  all_runs[k].fld = "none" /\ all_runs[k].instr = <<>>}

(***************************************************************************)
(* C8: in the span list extracted for a paragraph no run is a member of    *)
(* two different spans.                                                    *)
(* Fails: the field scan walks every w:r of the paragraph, those inside a  *)
(* w:hyperlink wrapper too, so a text run of a field that lies in a        *)
(* wrapper is a member of the wrapper's span and of the field's span.      *)
(***************************************************************************)
C8_SpansDisjoint ==
    scan.pc = "done" =>
        \A a, b \in 1..Len(hyperlinks) :
            a # b => \A m \in 1..Len(hyperlinks[a].runs) :
                        \A n \in 1..Len(hyperlinks[b].runs) :
                            hyperlinks[a].runs[m] # hyperlinks[b].runs[n]

(***************************************************************************)
(* C9: the span list holds the wrapper spans first and the field-code      *)
(* spans second, and no two spans of it have the same identity.            *)
(* Fails: a wrapper without r:id whose anchor is "field", at wrapper       *)
(* position n, gets the identity "field_n" that the n-th field-code span   *)
(* gets too.                                                               *)
(***************************************************************************)
C9_IdentitiesUnique ==
    scan.pc = "done" =>
        /\ SubSeq(hyperlinks, 1, Len(ExplicitSpans(para))) = ExplicitSpans(para)
        /\ SubSeq(hyperlinks, Len(ExplicitSpans(para)) + 1, Len(hyperlinks)) = scan.hyperlinks
        /\ \A a, b \in 1..Len(hyperlinks) : a # b => hyperlinks[a].id # hyperlinks[b].id

(***************************************************************************)
(* C10: a field-begin whose field has no URL or no member runs yields no   *)
(* span, and every well-formed HYPERLINK field of the paragraph, also one  *)
(* after such a field, yields a span with its own URL and exactly its own  *)
(* text runs as members.                                                   *)
(* Fails: after `begin, HYPERLINK "u", end` the scan for the separate      *)
(* marker runs on into the next field, whose text runs become members of   *)
(* a span with the URL u.                                                  *)
(***************************************************************************)
C10_LaterFieldsKeepTheirSpan ==
    scan.pc = "done" =>
        \A pe \in WellFormedFields(para.runs) :
            \E k \in 1..Len(scan.hyperlinks) :
                /\ scan.hyperlinks[k].url = MatchUrl(para.runs[pe[1] + 1].instr)
                /\ scan.hyperlinks[k].runs = [n \in 1..(pe[2] - pe[1] - 3) |-> pe[1] + 2 + n]

(***************************************************************************)
(* The Run Consolidator (_process_runs).  result, hyperlink_text and       *)
(* current_group['text'] are Python lists of strings: what the code tests  *)
(* with `if hyperlink_text:` or `if not current_group['text']:` is whether *)
(* the list holds an element, not whether the strings in it are empty.     *)
(***************************************************************************)
RECURSIVE Concat(_)
\* ''.join(parts)
Concat(parts) == IF parts = <<>> THEN <<>> ELSE Head(parts) \o Concat(Tail(parts))

RECURSIVE ReplaceAll(_, _, _)
\* text.replace(char, escape)
ReplaceAll(text, char, escape) ==
    IF text = <<>> THEN <<>>
    ELSE (IF Head(text) = char THEN escape ELSE <<Head(text)>>)
             \o ReplaceAll(Tail(text), char, escape)

\* The replacements without the one of '&'.
EscapeHtmlKeepsAmp(text) ==
    LET t2 == ReplaceAll(text, "<", <<"&", "l", "t", ";">>)
        t3 == ReplaceAll(t2, ">", <<"&", "g", "t", ";">>)
        t4 == ReplaceAll(t3, "\"", <<"&", "q", "u", "o", "t", ";">>)
    IN  ReplaceAll(t4, "'", <<"&", "#", "3", "9", ";">>)

\* The five replacements with the one of '&' made last.
EscapeHtmlAmpLast(text) ==
    LET t1 == ReplaceAll(text, "<", <<"&", "l", "t", ";">>)
        t2 == ReplaceAll(t1, ">", <<"&", "g", "t", ";">>)
        t3 == ReplaceAll(t2, "\"", <<"&", "q", "u", "o", "t", ";">>)
        t4 == ReplaceAll(t3, "'", <<"&", "#", "3", "9", ";">>)
    IN  ReplaceAll(t4, "&", <<"&", "a", "m", "p", ";">>)

\* _escape_html: the five replacements, one after the other, '&' first.
EscapeHtml(text) ==
    LET t1 == ReplaceAll(text, "&", <<"&", "a", "m", "p", ";">>)
        t2 == ReplaceAll(t1, "<", <<"&", "l", "t", ";">>)
        t3 == ReplaceAll(t2, ">", <<"&", "g", "t", ";">>)
        t4 == ReplaceAll(t3, "\"", <<"&", "q", "u", "o", "t", ";">>)
    IN  ReplaceAll(t4, "'", <<"&", "#", "3", "9", ";">>)

\* _format_link: f'<a href="{url}">{text}</a>'
FormatLink(url, text) == ((<<"<a href=\"">> \o url) \o <<"\">">>) \o text \o <<"</a>">>

\* run_hyperlink / current_hyperlink: None, or (link_id, link_url, link_text).
NoLink == [some |-> FALSE, id |-> <<"", 0>>, url |-> <<>>, text |-> <<>>]

LinkOf(span) == [some |-> TRUE, id |-> span.id, url |-> span.url, text |-> span.text]

\* `run._element in link_runs`
IsMember(n, span) == \E m \in 1..Len(span.runs) : span.runs[m] = n

\* Lines 354-359: the first span of the list that holds run element n.
RunHyperlink(hl, n) ==
    LET owners == {k \in 1..Len(hl) : IsMember(n, hl[k])}
    IN  IF owners = {} THEN NoLink
        ELSE LinkOf(hl[CHOOSE k \in owners : \A o \in owners : k <= o])

\* paragraph.runs: the w:r elements that are direct children of the
\* paragraph, by position; those inside a w:hyperlink are not among them.
ParagraphRuns(p) ==
    SelectSeq([n \in 1..Len(p.runs) |-> n], LAMBDA n : p.runs[n].wrapper = 0)

\* FormattedText with the tags applied in the opposite order.
FormattedTextReversed(group, combined_text) ==
    LET s == IF group.bold THEN (<<"<strong>">> \o combined_text) \o <<"</strong>">>
             ELSE combined_text
        e == IF group.italic THEN (<<"<em>">> \o s) \o <<"</em>">> ELSE s
    IN  IF group.underline THEN (<<"<u>">> \o e) \o <<"</u>">> ELSE e

\* Lines 333-339: <u>, then <em> around it, then <strong> around that.
FormattedText(group, combined_text) ==
    LET u == IF group.underline THEN (<<"<u>">> \o combined_text) \o <<"</u>">>
             ELSE combined_text
        e == IF group.italic THEN (<<"<em>">> \o u) \o <<"</em>">> ELSE u
    IN  IF group.bold THEN (<<"<strong>">> \o e) \o <<"</strong>">> ELSE e

\* The group before the first run: bold, italic and underline are None
\* (unset), which equals neither True nor False.
NoGroup ==
    [text |-> <<>>, unset |-> TRUE, bold |-> FALSE, italic |-> FALSE,
     underline |-> FALSE, hyperlink |-> NoLink]

\* flush_group (lines 324-348)
FlushGroup(w) ==
    IF w.current_group.text = <<>> THEN w
    ELSE LET formatted_text == FormattedText(w.current_group, Concat(w.current_group.text))
             flushed == [w EXCEPT !.current_group.text = <<>>]
         IN  IF w.current_group.hyperlink.some
             THEN [flushed EXCEPT !.hyperlink_text = Append(@, formatted_text)]
             ELSE [flushed EXCEPT !.result = Append(@, formatted_text)]

\* `current_hyperlink[2] if len(current_hyperlink) > 2 and current_hyperlink[2]
\*  else current_hyperlink[1]`
FallbackText(link) == IF link.text # <<>> THEN link.text ELSE link.url

\* Lines 372-380, 390-398, 441-447: emit the anchor of the open hyperlink.
CloseHyperlink(w) ==
    IF w.hyperlink_text # <<>>
    THEN [w EXCEPT !.result = Append(@, FormatLink(w.current_hyperlink.url,
                                                    Concat(w.hyperlink_text))),
                   !.hyperlink_text = <<>>]
    ELSE [w EXCEPT !.result = Append(@, FormatLink(w.current_hyperlink.url,
                                                    FallbackText(w.current_hyperlink))),
                   !.hyperlink_text = <<>>]

\* FormattingMatches with the comparison always failing.
FormattingNeverMatches(group, run_bold, run_italic, run_underline, run_hyperlink) == FALSE

\* Lines 415-420: formatting_matches
FormattingMatches(group, run_bold, run_italic, run_underline, run_hyperlink) ==
    /\ ~group.unset
    /\ group.bold = run_bold
    /\ group.italic = run_italic
    /\ group.underline = run_underline
    /\ group.hyperlink = run_hyperlink

\* `if not text and not run_hyperlink: continue`
IsSkipped(run, run_hyperlink) == run.t = <<>> /\ ~run_hyperlink.some

\* `if run_hyperlink and run_hyperlink != current_hyperlink`
StartsHyperlink(w, run_hyperlink) ==
    run_hyperlink.some /\ run_hyperlink # w.current_hyperlink

\* `elif not run_hyperlink and current_hyperlink`
EndsHyperlink(w, run_hyperlink) == ~run_hyperlink.some /\ w.current_hyperlink.some

\* Lines 365-399: close and open hyperlinks as the run's owner demands.
WithHyperlink(w, run_hyperlink) ==
    IF StartsHyperlink(w, run_hyperlink)
    THEN LET f == FlushGroup(w)
             c == IF f.current_hyperlink.some THEN CloseHyperlink(f) ELSE f
         IN  [c EXCEPT !.current_hyperlink = run_hyperlink]
    ELSE IF EndsHyperlink(w, run_hyperlink)
    THEN [CloseHyperlink(FlushGroup(w)) EXCEPT !.current_hyperlink = NoLink]
    ELSE w

\* The underline flag of the run taken as it is.
RunUnderlineAsFlagged(run, run_hyperlink) == run.underline

\* `run_underline = bool(run.underline) and not run_hyperlink`
RunUnderline(run, run_hyperlink) == run.underline /\ ~run_hyperlink.some

\* Lines 401-434: escape the run's text and add it to the group, flushing
\* the group first when the run's formatting differs from it.
WithText(w, run, run_hyperlink) ==
    LET escaped_text == IF run.t = <<>> /\ run_hyperlink.some THEN <<>> ELSE EscapeHtml(run.t)
        run_bold == run.bold
        run_italic == run.italic
        run_underline == RunUnderline(run, run_hyperlink)
        f == IF /\ ~FormattingMatches(w.current_group, run_bold, run_italic,
                                     run_underline, run_hyperlink)
                /\ w.current_group.text # <<>>
             THEN FlushGroup(w) ELSE w
        g == IF f.current_group.text = <<>>
             THEN [f EXCEPT !.current_group =
                       [text |-> <<>>, unset |-> FALSE, bold |-> run_bold,
                        italic |-> run_italic, underline |-> run_underline,
                        hyperlink |-> run_hyperlink]]
             ELSE f
    IN  [g EXCEPT !.current_group.text = Append(@, escaped_text)]

\* One iteration of `for run in paragraph.runs` (lines 350-434), for the
\* run at 0-based position w.idx of paragraph.runs.
RunStep(p, hl, w) ==
    LET n == ParagraphRuns(p)[w.idx + 1]
        run == p.runs[n]
        run_hyperlink == RunHyperlink(hl, n)
        seen == [w EXCEPT !.idx = @ + 1,
                          !.processed_hyperlinks =
                              IF run_hyperlink.some THEN @ \cup {run_hyperlink.id} ELSE @]
    IN  IF IsSkipped(run, run_hyperlink) THEN seen
        ELSE WithText(WithHyperlink(seen, run_hyperlink), run, run_hyperlink)

RECURSIVE Unprocessed(_, _)
\* Lines 452-455: the spans never seen in the walk that have a text.
Unprocessed(hl, processed) ==
    IF hl = <<>> THEN <<>>
    ELSE (IF Head(hl).id \notin processed /\ Head(hl).text # <<>>
          THEN <<<<" ">>, FormatLink(Head(hl).url, Head(hl).text)>>
          ELSE <<>>) \o Unprocessed(Tail(hl), processed)

\* Lines 436-447: the last group is flushed and a hyperlink still open is
\* closed.
AfterLoop(w) ==
    LET f == FlushGroup(w)
    IN  IF f.current_hyperlink.some THEN CloseHyperlink(f) ELSE f

\* Lines 436-457: after the loop.
Finish(hl, w) ==
    LET c == AfterLoop(w)
        r == c.result \o Unprocessed(hl, c.processed_hyperlinks)
    IN  [c EXCEPT !.result = r, !.out = Concat(r), !.pc = "done"]

\* Lines 310-322: the state before the first run.
StartWalk ==
    [idx |-> 0, result |-> <<>>, current_hyperlink |-> NoLink, hyperlink_text |-> <<>>,
     processed_hyperlinks |-> {}, current_group |-> NoGroup, out |-> <<>>, pc |-> "walk"]

RECURSIVE Walked(_, _, _)
Walked(p, hl, w) ==
    IF w.idx >= Len(ParagraphRuns(p)) THEN Finish(hl, w) ELSE Walked(p, hl, RunStep(p, hl, w))

\* _process_runs(paragraph): the inline HTML returned.
ProcessRuns(p) == Walked(p, ExtractHyperlinks(p), StartWalk).out

(***************************************************************************)
(* The paragraphs the consolidator is run on: up to MaxRunSegs pieces,     *)
(* each a text run with flags, a HYPERLINK field around text runs, or a    *)
(* wrapper.                                                                *)
(***************************************************************************)
PlainRuns ==
    {Run("none", <<>>, <<"Hello ">>, TRUE, FALSE, FALSE),
     Run("none", <<>>, <<"World">>, TRUE, FALSE, FALSE),
     Run("none", <<>>, <<>>, TRUE, FALSE, FALSE),
     Run("none", <<>>, <<"<", "&">>, FALSE, FALSE, FALSE),
     Run("none", <<>>, <<"c">>, TRUE, TRUE, TRUE),
     Run("none", <<>>, <<"d">>, FALSE, TRUE, TRUE)}

LinkedRuns ==
    {<<Run("none", <<>>, <<"Go">>, FALSE, FALSE, FALSE)>>,
     <<Run("none", <<>>, <<>>, FALSE, FALSE, FALSE)>>,
     <<Run("none", <<>>, <<"x">>, FALSE, TRUE, FALSE),
       Run("none", <<>>, <<"'y">>, TRUE, TRUE, FALSE)>>}

RunPieces ==
    {Piece(<<r>>, <<>>) : r \in PlainRuns}
    \cup {Piece((<<Marker("begin"), InstrRun(HyperlinkY), Marker("separate")>> \o rs)
                    \o <<Marker("end")>>, <<>>) : rs \in LinkedRuns}
    \cup {Piece(<<Marker("begin"), InstrRun(HyperlinkV), Marker("separate"),
                  Run("none", <<>>, <<"Go">>, TRUE, FALSE, TRUE), Marker("end")>>, <<>>),
          Piece(<<>>, <<Wrapper("rId1", "", <<"Click">>)>>),
          Piece(<<>>, <<Wrapper("", "field", <<"Top">>)>>),
          Piece(<<Wrapped(TextRun(<<"x">>))>>, <<WrapperX>>)}

RunParagraphs == ParagraphsOf(RunPieces, MaxRunSegs)

(***************************************************************************)
(* The Run Consolidator as a state machine: the extraction, one action per *)
(* way an iteration of the run loop can go, and the steps after the loop.  *)
(***************************************************************************)
RunsInit ==
    /\ para \in RunParagraphs
    /\ hyperlinks = <<>>
    /\ scan = [i |-> 0, field_idx |-> 0, pc |-> "idle"]
    /\ walk = [StartWalk EXCEPT !.pc = "start"]
    /\ NoList
    /\ NoDocument

Walking == walk.pc = "walk" /\ walk.idx < Len(ParagraphRuns(para))

\* The run of this iteration, and the hyperlink that owns it.
ThisRun == para.runs[ParagraphRuns(para)[walk.idx + 1]]

ThisHyperlink == RunHyperlink(hyperlinks, ParagraphRuns(para)[walk.idx + 1])

WalkStart ==
    /\ walk.pc = "start"
    /\ hyperlinks' = ExtractHyperlinks(para)
    /\ walk' = StartWalk
    /\ UNCHANGED <<items, frames, html, pc, steps, para, scan, doc, call>>

RunSkipped ==
    /\ Walking
    /\ IsSkipped(ThisRun, ThisHyperlink)
    /\ walk' = RunStep(para, hyperlinks, walk)
    /\ UNCHANGED <<items, frames, html, pc, steps, para, hyperlinks, scan, doc, call>>

RunStartsLink ==
    /\ Walking
    /\ ~IsSkipped(ThisRun, ThisHyperlink)
    /\ StartsHyperlink(walk, ThisHyperlink)
    /\ walk' = RunStep(para, hyperlinks, walk)
    /\ UNCHANGED <<items, frames, html, pc, steps, para, hyperlinks, scan, doc, call>>

RunEndsLink ==
    /\ Walking
    /\ ~IsSkipped(ThisRun, ThisHyperlink)
    /\ EndsHyperlink(walk, ThisHyperlink)
    /\ walk' = RunStep(para, hyperlinks, walk)
    /\ UNCHANGED <<items, frames, html, pc, steps, para, hyperlinks, scan, doc, call>>

RunGoesOn ==
    /\ Walking
    /\ ~IsSkipped(ThisRun, ThisHyperlink)
    /\ ~StartsHyperlink(walk, ThisHyperlink)
    /\ ~EndsHyperlink(walk, ThisHyperlink)
    /\ walk' = RunStep(para, hyperlinks, walk)
    /\ UNCHANGED <<items, frames, html, pc, steps, para, hyperlinks, scan, doc, call>>

WalkFinish ==
    /\ walk.pc = "walk"
    /\ walk.idx >= Len(ParagraphRuns(para))
    /\ walk' = Finish(hyperlinks, walk)
    /\ UNCHANGED <<items, frames, html, pc, steps, para, hyperlinks, scan, doc, call>>

RunsNext ==
    WalkStart \/ RunSkipped \/ RunStartsLink \/ RunEndsLink \/ RunGoesOn \/ WalkFinish

SpecRuns == RunsInit /\ [][RunsNext]_vars

(***************************************************************************)
(* Reading an inline HTML string.                                          *)
(***************************************************************************)
\* Whether sub occurs in str as a run of consecutive tokens.
Occurs(sub, str) ==
    \E k \in 0..(Len(str) - Len(sub)) : SubSeq(str, k + 1, k + Len(sub)) = sub

\* The entity a character of document text is to be written as.
Entity(c) ==
    CASE c = "&" -> <<"&", "a", "m", "p", ";">>
      [] c = "<" -> <<"&", "l", "t", ";">>
      [] c = ">" -> <<"&", "g", "t", ";">>
      [] c = "\"" -> <<"&", "q", "u", "o", "t", ";">>
      [] c = "'" -> <<"&", "#", "3", "9", ";">>
      [] OTHER -> <<c>>

RECURSIVE Entities(_)
Entities(text) == IF text = <<>> THEN <<>> ELSE Entity(Head(text)) \o Entities(Tail(text))

InlineOpeners == {"<a href=\"", "<strong>", "<em>", "<u>"}

InlineClosers == {"</a>", "</strong>", "</em>", "</u>"}

CloserOf(t) ==
    CASE t = "<a href=\"" -> "</a>"
      [] t = "<strong>" -> "</strong>"
      [] t = "<em>" -> "</em>"
      [] t = "<u>" -> "</u>"

\* <a> outside <strong> outside <em> outside <u>.
Rank(t) ==
    CASE t = "<a href=\"" -> 0
      [] t = "<strong>" -> 1
      [] t = "<em>" -> 2
      [] t = "<u>" -> 3

RECURSIVE WellNested(_, _)
\* Every closing tag closes the innermost open element, every element
\* opens inside one of lower rank only, and nothing stays open.
WellNested(toks, open) ==
    IF toks = <<>> THEN open = <<>>
    ELSE LET t == Head(toks)
         IN  IF t \in InlineOpeners
             THEN /\ (open = <<>> \/ Rank(open[Len(open)]) < Rank(t))
                  /\ WellNested(Tail(toks), Append(open, t))
             ELSE IF t \in InlineClosers
             THEN /\ open # <<>>
                  /\ CloserOf(open[Len(open)]) = t
                  /\ WellNested(Tail(toks), SubSeq(open, 1, Len(open) - 1))
             ELSE WellNested(Tail(toks), open)

\* The texts of the runs of paragraph.runs, in order.
RunTexts(p) == [k \in 1..Len(ParagraphRuns(p)) |-> p.runs[ParagraphRuns(p)[k]].t]

(***************************************************************************)
(* C5: for a paragraph without hyperlink spans whose runs all have the     *)
(* same bold, italic and underline flags, one of them at least with text,  *)
(* _process_runs returns the escaped run texts, concatenated, inside one   *)
(* <strong>, <em>, <u> group for the flags set: consecutive runs of one    *)
(* signature are merged.                                                   *)
(***************************************************************************)
C5_SameFlagsOneGroup ==
    LET rs == ParagraphRuns(para)
        first == para.runs[rs[1]]
    IN  (/\ walk.pc = "done"
         /\ hyperlinks = <<>>
         /\ rs # <<>>
         /\ \E k \in 1..Len(rs) : para.runs[rs[k]].t # <<>>
         /\ \A k \in 1..Len(rs) :
               /\ para.runs[rs[k]].bold = first.bold
               /\ para.runs[rs[k]].italic = first.italic
               /\ para.runs[rs[k]].underline = first.underline)
        => walk.out =
              (IF first.bold THEN <<"<strong>">> ELSE <<>>)
                 \o (IF first.italic THEN <<"<em>">> ELSE <<>>)
                 \o (IF first.underline THEN <<"<u>">> ELSE <<>>)
                 \o Entities(Concat(RunTexts(para)))
                 \o (IF first.underline THEN <<"</u>">> ELSE <<>>)
                 \o (IF first.italic THEN <<"</em>">> ELSE <<>>)
                 \o (IF first.bold THEN <<"</strong>">> ELSE <<>>)

C5_Witness ==
    /\ walk.pc = "done"
    /\ RunTexts(para) = <<<<"Hello ">>, <<"World">>>>
    /\ walk.out = <<"<strong>", "Hello ", "World", "</strong>">>

(***************************************************************************)
(* C6: when a hyperlink is closed and every member run seen in the walk    *)
(* has empty text, the anchor holds the span's fallback text, or the URL   *)
(* when that is empty; no anchor has an empty inner text.                  *)
(* Fails: the empty text of a member run is appended to the group, so the  *)
(* flushed group puts an (empty) string into hyperlink_text and the        *)
(* branch that uses the fallback text is never taken.                      *)
(***************************************************************************)
C6_EmptyLinkGetsFallback ==
    walk.pc = "done" =>
        /\ ~Occurs(<<"\">", "</a>">>, walk.out)
        /\ \A k \in 1..Len(hyperlinks) :
              (/\ hyperlinks[k].id \in walk.processed_hyperlinks
               /\ \A n \in 1..Len(para.runs) :
                     RunHyperlink(hyperlinks, n) = LinkOf(hyperlinks[k]) => para.runs[n].t = <<>>)
              => Occurs(FormatLink(hyperlinks[k].url,
                                   IF hyperlinks[k].text # <<>> THEN hyperlinks[k].text
                                   ELSE hyperlinks[k].url),
                        walk.out)

(***************************************************************************)
(* C7: the string _process_runs returns is tag-balanced: every <strong>,   *)
(* <em>, <u> and <a> it writes is closed by its closing tag, innermost     *)
(* first, and <strong> is outside <em>, which is outside <u>.              *)
(***************************************************************************)
C7_TagBalanced == walk.pc = "done" => WellNested(walk.out, <<>>)

C7_Witness ==
    /\ walk.pc = "done"
    /\ Occurs(<<"<strong>", "<em>", "<u>">>, walk.out)
    /\ Occurs(<<"\">", "<strong>">>, walk.out)

(***************************************************************************)
(* C11: a field begin, HYPERLINK "<url>" [switches], separate, text runs,  *)
(* end yields exactly one span: its URL is the first quoted group after    *)
(* the keyword, its members are exactly the runs between the separate and  *)
(* the end marker, and its fallback text is their text, concatenated.      *)
(* Read on paragraphs in which every begin marker starts such a field.     *)
(***************************************************************************)
\* The fields <<b, e>> of the stated form, read off the runs directly.
PlainFields(all_runs) ==
    {pe \in (1..Len(all_runs)) \X (1..Len(all_runs)) :
        LET b == pe[1]
            e == pe[2]
        IN  /\ b + 4 <= e
            /\ all_runs[b].fld = "begin"
            /\ Len(all_runs[b + 1].instr) >= 2
            /\ all_runs[b + 1].instr[1] = Word("HYPERLINK")
            /\ all_runs[b + 1].instr[2].quoted
            /\ all_runs[b + 1].instr[2].v # <<>>
            /\ all_runs[b + 2].fld = "separate"
            /\ all_runs[e].fld = "end"
            /\ \A k \in (b + 3)..(e - 1) :
                  all_runs[k].fld = "none" /\ all_runs[k].instr = <<>>}

\* The span the field <<b, e>> is to yield, but for its identity.
FieldSpanOf(all_runs, pe) ==
    [url |-> all_runs[pe[1] + 1].instr[2].v,
     runs |-> [n \in 1..(pe[2] - pe[1] - 3) |-> pe[1] + 2 + n],
     text |-> Concat([n \in 1..(pe[2] - pe[1] - 3) |-> all_runs[pe[1] + 2 + n].t])]

SameSpan(span, expected) ==
    /\ span.url = expected.url
    /\ span.runs = expected.runs
    /\ span.text = expected.text

C11_WellFormedFieldOneSpan ==
    (/\ scan.pc = "done"
     /\ \A b \in 1..Len(para.runs) :
           para.runs[b].fld = "begin" => \E e \in 1..Len(para.runs) : <<b, e>> \in PlainFields(para.runs))
    => /\ Len(scan.hyperlinks) = Cardinality(PlainFields(para.runs))
       /\ \A pe \in PlainFields(para.runs) :
             \E k \in 1..Len(scan.hyperlinks) :
                SameSpan(scan.hyperlinks[k], FieldSpanOf(para.runs, pe))
       /\ \A k \in 1..Len(scan.hyperlinks) : scan.hyperlinks[k].id = <<"field", k - 1>>

C11_Witness ==
    /\ scan.pc = "done"
    /\ para.runs = <<Marker("begin"), InstrRun(HyperlinkV), Marker("separate"),
                     TextRun(<<>>), TextRun(<<"y">>), Marker("end"),
                     Marker("begin"), InstrRun(HyperlinkY), Marker("separate"),
                     TextRun(<<"Go">>), Marker("end")>>
    /\ scan.hyperlinks = <<Span(<<"field", 0>>, UrlV, <<4, 5>>, <<"y">>),
                           Span(<<"field", 1>>, UrlY, <<10>>, <<"Go">>)>>

(***************************************************************************)
(* Configuration.  A configuration is the record of the values the code    *)
(* reads with .get, the defaults of the code filled in.                    *)
(***************************************************************************)
\* self.quote_detection.get('threshold', 3)
DefaultThreshold == 3

\* The default of quote_types as the source file has it: the double quote
\* three times and the single quote twice.
DefaultQuoteTypes == <<"\"", "\"", "\"", "'", "'">>

QuoteDetection(enabled, threshold, wrap_tag, quote_types) ==
    [enabled |-> enabled, threshold |-> threshold, wrap_tag |-> wrap_tag,
     quote_types |-> quote_types]

\* config.get('quote_detection', {}) of an empty configuration
DefaultQuoteDetection == QuoteDetection(FALSE, DefaultThreshold, <<"blockquote">>, DefaultQuoteTypes)

Config(heading_tag, paragraph_tag, quote_detection, special_chars, replacements) ==
    [heading_tag |-> heading_tag, paragraph_tag |-> paragraph_tag,
     quote_detection |-> quote_detection, special_chars |-> special_chars,
     replacements |-> replacements]

\* special_characters: the old dict format (an entry is <<>> when its key
\* is absent, else <<[enabled, wrap_tag]>>) or the new list format.
SpecialDict(copyright_symbol, registered_symbol) ==
    [format |-> "dict", copyright_symbol |-> copyright_symbol,
     registered_symbol |-> registered_symbol, configs |-> <<>>]

SpecialList(configs) ==
    [format |-> "list", copyright_symbol |-> <<>>, registered_symbol |-> <<>>,
     configs |-> configs]

CharConfig(character, wrap_tag, enabled) ==
    [character |-> character, wrap_tag |-> wrap_tag, enabled |-> enabled]

Rule(search, replace, case_sensitive) ==
    [search |-> search, replace |-> replace, case_sensitive |-> case_sensitive]

\* The configuration {}: every .get gives its default.
DefaultConfig == Config("h3", "p", DefaultQuoteDetection, SpecialDict(<<>>, <<>>), <<>>)

(***************************************************************************)
(* Strings of tokens: trimming, searching and replacing.                   *)
(***************************************************************************)
Whitespace == {" ", "\t", "\n"}

RECURSIVE LStrip(_)
LStrip(text) ==
    IF text # <<>> /\ Head(text) \in Whitespace THEN LStrip(Tail(text)) ELSE text

RECURSIVE RStrip(_)
RStrip(text) ==
    IF text # <<>> /\ text[Len(text)] \in Whitespace
    THEN RStrip(SubSeq(text, 1, Len(text) - 1))
    ELSE text

\* str.strip()
Strip(text) == RStrip(LStrip(text))

\* text.count(qt) for a one-character qt
Count(text, qt) == Cardinality({k \in 1..Len(text) : text[k] = qt})

\* The lower-case form of a character (re.IGNORECASE compares these).
Lower(c) ==
    CASE c = "A" -> "a"
      [] c = "B" -> "b"
      [] c = "C" -> "c"
      [] OTHER -> c

LowerAll(text) == [k \in 1..Len(text) |-> Lower(text[k])]

\* Whether search occurs in text at position k (1-based).
MatchesAt(text, k, search, case_sensitive) ==
    /\ k + Len(search) - 1 <= Len(text)
    /\ LET part == SubSeq(text, k, k + Len(search) - 1)
       IN  IF case_sensitive THEN part = search ELSE LowerAll(part) = LowerAll(search)

\* The positions at which search occurs in text.
Matches(text, search, case_sensitive) ==
    {k \in 1..Len(text) : MatchesAt(text, k, search, case_sensitive)}

\* html.replace(search, replace) and pattern.sub(replace, html): every
\* occurrence, leftmost first, not overlapping; search is not empty.
RECURSIVE ReplaceStr(_, _, _, _)
ReplaceStr(text, search, replace, case_sensitive) ==
    LET found == Matches(text, search, case_sensitive)
        k == CHOOSE m \in found : \A n \in found : m <= n
    IN  IF found = {} THEN text
        ELSE (SubSeq(text, 1, k - 1) \o replace)
                \o ReplaceStr(SubSeq(text, k + Len(search), Len(text)), search, replace,
                              case_sensitive)

(***************************************************************************)
(* re.sub and pattern.sub read the replacement as a template: a backslash  *)
(* starts an escape.  The pattern is an escaped literal, so it has no      *)
(* group but group 0, the match.                                           *)
(***************************************************************************)
AsciiLetters ==
    {"a", "b", "c", "d", "e", "f", "g", "h", "i", "j", "k", "l", "m",
     "n", "o", "p", "q", "r", "s", "t", "u", "v", "w", "x", "y", "z",
     "A", "B", "C", "D", "E", "F", "G", "H", "I", "J", "K", "L", "M",
     "N", "O", "P", "Q", "R", "S", "T", "U", "V", "W", "X", "Y", "Z"}

Digits == {"0", "1", "2", "3", "4", "5", "6", "7", "8", "9"}

\* The characters a backslash and a letter stand for; "\\x07", "\\x08",
\* "\\x0b" and "\\x00" name the characters of these codes.
TemplateEscape(c) ==
    CASE c = "a" -> "\\x07"
      [] c = "b" -> "\\x08"
      [] c = "f" -> "\f"
      [] c = "n" -> "\n"
      [] c = "r" -> "\r"
      [] c = "t" -> "\t"
      [] c = "v" -> "\\x0b"
      [] c = "\\" -> "\\"

\* The place of the matched text in a parsed template.
GroupZero == "\\g<0>"

\* re.error raised while the template is parsed.
BadTemplate == [ok |-> FALSE, v |-> <<>>]

\* The template parsed: its characters, with the escapes resolved.  A
\* reference to another group than 0, an unknown letter after a backslash
\* and a backslash at the end raise re.error; a backslash before any other
\* character stays with that character.  (Octal escapes of several digits
\* are read as the one-digit escape.)
RECURSIVE ParseTemplate(_)
ParseTemplate(template) ==
    LET Then(front, rest) ==
            LET r == ParseTemplate(rest)
            IN  IF r.ok THEN [ok |-> TRUE, v |-> front \o r.v] ELSE BadTemplate
        c == template[2]
    IN  IF template = <<>> THEN [ok |-> TRUE, v |-> <<>>]
        ELSE IF Head(template) # "\\" THEN Then(<<Head(template)>>, Tail(template))
        ELSE IF Len(template) = 1 THEN BadTemplate
        ELSE IF c = "g"
        THEN IF Len(template) >= 5 /\ SubSeq(template, 3, 5) = <<"<", "0", ">">>
             THEN Then(<<GroupZero>>, SubSeq(template, 6, Len(template)))
             ELSE BadTemplate
        ELSE IF c = "0" THEN Then(<<"\\x00">>, SubSeq(template, 3, Len(template)))
        ELSE IF c \in Digits THEN BadTemplate
        ELSE IF c \in {"a", "b", "f", "n", "r", "t", "v", "\\"}
        THEN Then(<<TemplateEscape(c)>>, SubSeq(template, 3, Len(template)))
        ELSE IF c \in AsciiLetters THEN BadTemplate
        ELSE Then(<<"\\", c>>, SubSeq(template, 3, Len(template)))

\* The text a parsed template inserts for a match.
RECURSIVE Expand(_, _)
Expand(parsed, matched) ==
    IF parsed = <<>> THEN <<>>
    ELSE (IF Head(parsed) = GroupZero THEN matched ELSE <<Head(parsed)>>)
            \o Expand(Tail(parsed), matched)

\* re.sub(pattern, template, text) for the pattern of an escaped literal
\* and a template that parses: every occurrence, leftmost first, not
\* overlapping.
RECURSIVE Sub(_, _, _, _)
Sub(text, search, template, case_sensitive) ==
    LET found == Matches(text, search, case_sensitive)
        k == CHOOSE m \in found : \A n \in found : m <= n
        matched == SubSeq(text, k, k + Len(search) - 1)
    IN  IF found = {} THEN text
        ELSE (SubSeq(text, 1, k - 1) \o Expand(ParseTemplate(template).v, matched))
                \o Sub(SubSeq(text, k + Len(search), Len(text)), search, template,
                       case_sensitive)

(***************************************************************************)
(* Post-processing of the joined HTML.                                     *)
(***************************************************************************)
\* Lines 672-699: the list of character configurations to apply.  The
\* tokens "(c)" and "(r)" stand for the copyright and the registered sign.
LegacyConfig(entry, character) ==
    IF entry # <<>> /\ entry[1].enabled
    THEN <<CharConfig(<<character>>, entry[1].wrap_tag, TRUE)>>
    ELSE <<>>

CharConfigs(special_chars) ==
    IF special_chars.format = "dict"
    THEN LegacyConfig(special_chars.copyright_symbol, "(c)")
            \o LegacyConfig(special_chars.registered_symbol, "(r)")
    ELSE IF special_chars.format = "list" THEN special_chars.configs
    ELSE <<>>

\* f'<{wrap_tag}>{character}</{wrap_tag}>'
WrappedCharacter(config) ==
    (<<"<", config.wrap_tag, ">">> \o config.character) \o <<"</", config.wrap_tag, ">">>

\* Lines 702-719: one configuration applied to the HTML.
ApplyCharConfig(full_html, config) ==
    IF ~config.enabled \/ config.character = <<>> THEN full_html
    ELSE Sub(full_html, config.character, WrappedCharacter(config), TRUE)

RECURSIVE ApplyCharConfigs(_, _)
ApplyCharConfigs(full_html, char_configs) ==
    IF char_configs = <<>> THEN full_html
    ELSE ApplyCharConfigs(ApplyCharConfig(full_html, Head(char_configs)), Tail(char_configs))

\* Whether re.sub of line 719 raises for one of the configurations.
SpecialCharactersRaise(special_chars) ==
    \E k \in 1..Len(CharConfigs(special_chars)) :
        LET config == CharConfigs(special_chars)[k]
        IN  /\ config.enabled
            /\ config.character # <<>>
            /\ ~ParseTemplate(WrappedCharacter(config)).ok

\* _apply_special_characters(full_html)
ApplySpecialCharacters(full_html, special_chars) ==
    ApplyCharConfigs(full_html, CharConfigs(special_chars))

\* Rules applied at once to the same text: a rule does not see what an
\* earlier rule wrote.
RECURSIVE ApplyAtOnce(_, _)
ApplyAtOnce(full_html, rules) ==
    LET live == SelectSeq(rules, LAMBDA r : r.search # <<>>)
        hits == {pr \in (1..Len(full_html)) \X (1..Len(live)) :
                    MatchesAt(full_html, pr[1], live[pr[2]].search, live[pr[2]].case_sensitive)}
        first == CHOOSE pr \in hits :
                    \A o \in hits : pr[1] < o[1] \/ (pr[1] = o[1] /\ pr[2] <= o[2])
        r == live[first[2]]
    IN  IF hits = {} THEN full_html
        ELSE (SubSeq(full_html, 1, first[1] - 1) \o r.replace)
                \o ApplyAtOnce(SubSeq(full_html, first[1] + Len(r.search), Len(full_html)),
                               rules)

\* Whether pattern.sub of line 746 raises for the rule.
RuleRaises(replacement) ==
    /\ replacement.search # <<>>
    /\ ~replacement.case_sensitive
    /\ ~ParseTemplate(replacement.replace).ok

\* Whether _apply_replacements raises: every rule is reached unless an
\* earlier one raised.
ReplacementsRaise(replacements) ==
    \E n \in 1..Len(replacements) : RuleRaises(replacements[n])

\* Lines 734-746: one rule applied to the HTML.
ApplyRule(full_html, replacement) ==
    IF replacement.search = <<>> THEN full_html
    ELSE IF replacement.case_sensitive
    THEN ReplaceStr(full_html, replacement.search, replacement.replace, TRUE)
    ELSE Sub(full_html, replacement.search, replacement.replace, FALSE)

\* _apply_replacements(full_html): the rules in list order, each on the result
\* of the one before.
RECURSIVE ApplyReplacements(_, _)
ApplyReplacements(full_html, replacements) ==
    IF replacements = <<>> THEN full_html
    ELSE ApplyReplacements(ApplyRule(full_html, Head(replacements)), Tail(replacements))

(***************************************************************************)
(* Blocks of the document body.  A paragraph block carries its numbering   *)
(* properties, its style and its runs; a style name is a base name with    *)
(* an optional trailing number (digits = 0: none), as in "List Bullet 2".  *)
(***************************************************************************)
Style(name, digits) == [name |-> name, digits |-> digits]

\* numPr is "none" (no pPr or no numPr), "noNumId" (numPr without numId) or
\* "numId"; ilvl is the value of w:ilvl, -1 when the element is absent.
ParagraphBlock(numPr, ilvl, style, p) ==
    [el |-> "p", numPr |-> numPr, ilvl |-> ilvl, style |-> style, p |-> p, rows |-> <<>>]

\* rows: the rows of the table, each the sequence of its cell texts.
TableBlock(rows) ==
    [el |-> "tbl", numPr |-> "none", ilvl |-> -1, style |-> Style("Normal", 0),
     p |-> Piece(<<>>, <<>>), rows |-> rows]

\* Any other child of the body (w:sectPr).
OtherBlock ==
    [el |-> "other", numPr |-> "none", ilvl |-> -1, style |-> Style("Normal", 0),
     p |-> Piece(<<>>, <<>>), rows |-> <<>>]

\* f'<{tag}>' and f'</{tag}>'
TagOpen(tag) == <<"<", tag, ">">>

TagClose(tag) == <<"</", tag, ">">>

\* paragraph.text: the text of the runs of the paragraph.
ParagraphText(p) == Concat(RunTexts(p))

\* paragraph.style.name.startswith('Heading')
IsHeadingStyle(style) == style.name = "Heading"

\* 'list bullet' in style_name or name.startswith('List Bullet')
IsListBulletStyle(style) == style.name = "List Bullet"

\* 'list number' in style_name or name.startswith('List Number')
IsListNumberStyle(style) == style.name = "List Number"

\* Lines 185-188: the level from the number at the end of the style name.
StyleLevel(style) == IF style.digits > 0 THEN style.digits - 1 ELSE 0

\* None, for a paragraph that is no list item.
NoListInfo == [some |-> FALSE, list_type |-> "none", level |-> 0, text |-> <<>>]

ListInfo(list_type, level, text) ==
    [some |-> TRUE, list_type |-> list_type, level |-> level, text |-> text]

\* _get_list_info(paragraph): the numbering properties first, whatever the
\* style is, then the list styles.
GetListInfo(b) ==
    IF b.numPr = "numId"
    THEN ListInfo("bullet", IF b.ilvl >= 0 THEN b.ilvl ELSE 0, ProcessRuns(b.p))
    ELSE IF IsListBulletStyle(b.style)
    THEN ListInfo("bullet", StyleLevel(b.style), ProcessRuns(b.p))
    ELSE IF IsListNumberStyle(b.style)
    THEN ListInfo("number", StyleLevel(b.style), ProcessRuns(b.p))
    ELSE NoListInfo

\* _count_quotes(text): sum(text.count(qt) for qt in quote_types)
RECURSIVE CountQuotes(_, _)
CountQuotes(text, quote_types) ==
    IF quote_types = <<>> THEN 0
    ELSE Count(text, Head(quote_types)) + CountQuotes(text, Tail(quote_types))

\* _parse_wrap_tag(wrap_tag): (opening_tag, closing_tag); the tag name is
\* the first word of the stripped specification.
ParseWrapTag(wrap_tag) ==
    LET spec == Strip(wrap_tag)
        tag_name == IF \E k \in 1..Len(spec) : spec[k] = " " THEN <<spec[1]>> ELSE spec
    IN  [opening_tag |-> (<<"<">> \o spec) \o <<">">>,
         closing_tag |-> (<<"</">> \o tag_name) \o <<">">>]

\* `self._count_quotes(text) >= threshold`
MeetsThreshold(count, threshold) == count >= threshold

\* _convert_paragraph(paragraph)
ConvertParagraph(b, config) ==
    LET text == Strip(ParagraphText(b.p))
        tag == config.paragraph_tag
        q == config.quote_detection
        inner == (TagOpen(tag) \o ProcessRuns(b.p)) \o TagClose(tag)
        wrap == ParseWrapTag(q.wrap_tag)
    IN  IF text = <<>> THEN <<>>
        ELSE IF IsHeadingStyle(b.style)
        THEN (TagOpen(config.heading_tag) \o EscapeHtml(text)) \o TagClose(config.heading_tag)
        ELSE IF q.enabled /\ MeetsThreshold(CountQuotes(text, q.quote_types), q.threshold)
        THEN (wrap.opening_tag \o inner) \o wrap.closing_tag
        ELSE inner

\* Lines 635-637 and 649-651: the lines of the cells of a row.
CellLines(row, tag) ==
    [k \in 1..Len(row) |->
        Line(6, (TagOpen(tag) \o EscapeHtml(Strip(row[k]))) \o TagClose(tag))]

RowLines(row, tag) ==
    (<<Line(4, <<"<tr>">>)>> \o CellLines(row, tag)) \o <<Line(4, <<"</tr>">>)>>

RECURSIVE BodyLines(_)
BodyLines(rows) ==
    IF rows = <<>> THEN <<>> ELSE RowLines(Head(rows), "td") \o BodyLines(Tail(rows))

\* A body for every table that has a row.
HasBodyAlways(rows) == Len(rows) > 0

\* `len(table.rows) > 1`
HasBody(rows) == Len(rows) > 1

\* _convert_table(table)
ConvertTable(rows) ==
    IF rows = <<>> THEN <<>>
    ELSE (<<Line(0, <<"<table>">>)>>
          \o ((<<Line(2, <<"<thead>">>)>> \o RowLines(rows[1], "th")) \o <<Line(2, <<"</thead>">>)>>)
          \o (IF HasBody(rows)
              THEN (<<Line(2, <<"<tbody>">>)>> \o BodyLines(Tail(rows)))
                      \o <<Line(2, <<"</tbody>">>)>>
              ELSE <<>>))
         \o <<Line(0, <<"</table>">>)>>

(***************************************************************************)
(* The Block Dispatcher (convert_docx_to_html).  A fragment of html_parts  *)
(* is a sequence of lines; built records the buffers handed to             *)
(* _create_list_html, in the order of the calls.                           *)
(***************************************************************************)
\* The text of a line: its leading spaces, two to a token, then its tokens.
LineText(l) ==
    ([k \in 1..(l.ind \div 2) |-> "  "] \o [k \in 1..(l.ind % 2) |-> " "]) \o l.s

RECURSIVE Flat(_)
Flat(ls) ==
    IF ls = <<>> THEN <<>>
    ELSE IF Len(ls) = 1 THEN LineText(ls[1])
    ELSE (LineText(ls[1]) \o <<"\n">>) \o Flat(Tail(ls))

\* '\n'.join(html_parts): an empty fragment still takes a line.
JoinFragments(html_parts) ==
    IF html_parts = <<>> THEN <<>>
    ELSE Flat(Concat([k \in 1..Len(html_parts) |-> Split(html_parts[k])]))

\* The state at line 55, before the first element of the body.
StartDoc(body, config) ==
    [body |-> body, config |-> config, pos |-> 0, current_list_items |-> <<>>,
     current_list_type |-> "none", html_parts |-> <<>>, built |-> <<>>, out |-> <<>>,
     pc |-> "run"]

\* The List Builder called whatever the buffer holds.
WithListHtmlAlways(d) ==
    [d EXCEPT !.html_parts = Append(@, CreateListHtml(d.current_list_items)),
              !.built = Append(@, d.current_list_items)]

\* html_parts.append(self._create_list_html(current_list_items, ...))
WithListHtml(d) ==
    IF d.current_list_items = <<>> THEN d
    ELSE [d EXCEPT !.html_parts = Append(@, CreateListHtml(d.current_list_items)),
                   !.built = Append(@, d.current_list_items)]

\* The list is emitted but the buffer is kept.
AppendedOnly(d) == WithListHtml(d)

\* Lines 72-76 and 85-88: close any open list, then clear the buffer.
Flushed(d) ==
    [WithListHtml(d) EXCEPT !.current_list_items = <<>>, !.current_list_type = "none"]

\* The fragment appended whether it is empty or not.
WithFragmentAlways(d, fragment) == [d EXCEPT !.html_parts = Append(@, fragment)]

\* `if html: html_parts.append(html)`
WithFragment(d, fragment) ==
    IF fragment = <<>> THEN d ELSE [d EXCEPT !.html_parts = Append(@, fragment)]

\* Lines 61-70: a list paragraph goes to the buffer.
WithListItem(d, list_info) ==
    [d EXCEPT !.current_list_type = IF @ = "none" THEN list_info.list_type ELSE @,
              !.current_list_items =
                  Append(@, [level |-> list_info.level, kind |-> list_info.list_type,
                             text |-> list_info.text])]

\* The string a paragraph is converted to, as a fragment.
ParagraphFragment(b, config) ==
    IF ConvertParagraph(b, config) = <<>> THEN <<>>
    ELSE <<Line(0, ConvertParagraph(b, config))>>

\* One iteration of the loop of lines 55-94, on the element at d.pos.
DocStep(d) ==
    LET b == d.body[d.pos + 1]
        next == [d EXCEPT !.pos = @ + 1]
    IN  IF b.el = "p"
        THEN IF GetListInfo(b).some
             THEN WithListItem(next, GetListInfo(b))
             ELSE WithFragment(Flushed(next), ParagraphFragment(b, d.config))
        ELSE IF b.el = "tbl"
        THEN WithFragment(Flushed(next), ConvertTable(b.rows))
        ELSE next

\* Lines 96-109: the list still open, the join and the post-processing;
\* an exception of the post-processing ends the conversion.
DocEnd(d) ==
    LET e == WithListHtml(d)
    IN  IF \/ SpecialCharactersRaise(d.config.special_chars)
           \/ ReplacementsRaise(d.config.replacements)
        THEN [e EXCEPT !.pc = "error"]
        ELSE [e EXCEPT !.out = ApplyReplacements(
                                  ApplySpecialCharacters(JoinFragments(e.html_parts),
                                                         d.config.special_chars),
                                  d.config.replacements),
                       !.pc = "done"]

(***************************************************************************)
(* The documents the dispatcher is run on: up to MaxBlocks body elements.  *)
(***************************************************************************)
Normal == Style("Normal", 0)

TextParagraph(t) == Piece(<<TextRun(t)>>, <<>>)

DocBlocks ==
    {ParagraphBlock("numId", 0, Normal, TextParagraph(<<"a">>)),
     ParagraphBlock("numId", 1, Normal, TextParagraph(<<"b">>)),
     ParagraphBlock("none", -1, Style("List Number", 0), TextParagraph(<<"c">>)),
     ParagraphBlock("none", -1, Normal, TextParagraph(<<"\"", "d", "\"">>)),
     ParagraphBlock("noNumId", -1, Normal, TextParagraph(<<" ">>)),
     ParagraphBlock("none", -1, Style("Heading", 1), TextParagraph(<<" ", "h", "&">>)),
     ParagraphBlock("numId", 0, Style("Heading", 1), TextParagraph(<<"h">>)),
     TableBlock(<<>>),
     TableBlock(<<<<<<"x", "(c)">>>>>>),
     OtherBlock}

Bodies == UNION {[1..n -> DocBlocks] : n \in 0..MaxBlocks}

DocConfigs ==
    {DefaultConfig,
     Config("h2", "p",
            QuoteDetection(TRUE, 2, <<"div", " ", "class=\"q\"">>, <<"\"">>),
            SpecialList(<<CharConfig(<<"(c)">>, "sup", TRUE)>>),
            <<Rule(<<"d">>, <<"e">>, TRUE)>>)}

(***************************************************************************)
(* The Block Dispatcher as a state machine: one action per kind of body    *)
(* element, and the end of the document.                                   *)
(***************************************************************************)
DocInit ==
    /\ doc \in {StartDoc(body, config) : body \in Bodies, config \in DocConfigs}
    /\ call = [pc |-> "idle"]
    /\ NoList
    /\ NoParagraph

Dispatching == doc.pc = "run" /\ doc.pos < Len(doc.body)

ThisBlock == doc.body[doc.pos + 1]

DocStepped ==
    /\ doc' = DocStep(doc)
    /\ UNCHANGED <<items, frames, html, pc, steps, para, hyperlinks, scan, walk, call>>

DocListItem ==
    /\ Dispatching
    /\ ThisBlock.el = "p"
    /\ GetListInfo(ThisBlock).some
    /\ DocStepped

DocParagraph ==
    /\ Dispatching
    /\ ThisBlock.el = "p"
    /\ ~GetListInfo(ThisBlock).some
    /\ DocStepped

DocTable ==
    /\ Dispatching
    /\ ThisBlock.el = "tbl"
    /\ DocStepped

DocOther ==
    /\ Dispatching
    /\ ThisBlock.el \notin {"p", "tbl"}
    /\ DocStepped

DocFinish ==
    /\ doc.pc = "run"
    /\ doc.pos >= Len(doc.body)
    /\ doc' = DocEnd(doc)
    /\ UNCHANGED <<items, frames, html, pc, steps, para, hyperlinks, scan, walk, call>>

DocNext == DocListItem \/ DocParagraph \/ DocTable \/ DocOther \/ DocFinish

SpecDoc == DocInit /\ [][DocNext]_vars

(***************************************************************************)
(* Reading a document body: its blocks (paragraphs and tables) and the     *)
(* maximal runs of consecutive list paragraphs among them.                 *)
(***************************************************************************)
Blocks(body) == SelectSeq(body, LAMBDA b : b.el \in {"p", "tbl"})

IsListParagraph(b) == b.el = "p" /\ GetListInfo(b).some

ItemOf(b) ==
    [level |-> GetListInfo(b).level, kind |-> GetListInfo(b).list_type,
     text |-> GetListInfo(b).text]

\* The number of list paragraphs the blocks start with.
RECURSIVE ListPrefix(_)
ListPrefix(bs) ==
    IF bs # <<>> /\ IsListParagraph(Head(bs)) THEN 1 + ListPrefix(Tail(bs)) ELSE 0

\* The item buffers of the maximal runs of list paragraphs, in order.
RECURSIVE ListRuns(_)
ListRuns(bs) ==
    IF bs = <<>> THEN <<>>
    ELSE IF ListPrefix(bs) = 0 THEN ListRuns(Tail(bs))
    ELSE <<[k \in 1..ListPrefix(bs) |-> ItemOf(bs[k])]>>
            \o ListRuns(SubSeq(bs, ListPrefix(bs) + 1, Len(bs)))

\* The fragments in block order: one per run of list paragraphs, one per
\* other block that converts to a non-empty string.
RECURSIVE FragmentsInOrder(_, _)
FragmentsInOrder(bs, config) ==
    IF bs = <<>> THEN <<>>
    ELSE IF ListPrefix(bs) > 0
    THEN <<CreateListHtml([k \in 1..ListPrefix(bs) |-> ItemOf(bs[k])])>>
            \o FragmentsInOrder(SubSeq(bs, ListPrefix(bs) + 1, Len(bs)), config)
    ELSE LET own == IF Head(bs).el = "tbl" THEN ConvertTable(Head(bs).rows)
                    ELSE ParagraphFragment(Head(bs), config)
         IN  (IF own = <<>> THEN <<>> ELSE <<own>>) \o FragmentsInOrder(Tail(bs), config)

(***************************************************************************)
(* C12: the dispatcher emits the fragments in block order.  The items of   *)
(* every maximal run of consecutive list paragraphs are handed to the      *)
(* List Builder once, as one buffer, and its fragment stands after the     *)
(* fragments of the earlier blocks and before the one of the paragraph or  *)
(* table that ends the run; a run open at the end of the body is emitted   *)
(* then.                                                                   *)
(***************************************************************************)
C12_FragmentsInBlockOrder ==
    doc.pc = "done" =>
        /\ doc.built = ListRuns(Blocks(doc.body))
        /\ doc.html_parts = FragmentsInOrder(Blocks(doc.body), doc.config)

C12_Witness ==
    /\ doc.pc = "done"
    /\ Len(doc.body) = 3
    /\ doc.body[3].el = "p"
    /\ Len(doc.built) = 2
    /\ Len(doc.built[1]) = 1
    /\ Len(doc.html_parts) = 3
    /\ doc.html_parts[2] = <<Line(0, <<"<", "p", ">", "&", "q", "u", "o", "t", ";", "d",
                                      "&", "q", "u", "o", "t", ";", "</", "p", ">">>)>>

(***************************************************************************)
(* C13: a paragraph with non-empty text whose style name starts with       *)
(* 'Heading' is emitted as the heading tag around its escaped text, after  *)
(* the list buffer was flushed, and is never put into the list buffer,     *)
(* numbering properties or not.  Read in the state right after the         *)
(* dispatcher handled the paragraph.                                       *)
(* Fails: _get_list_info is asked first and looks at the numbering         *)
(* properties only, so a numbered heading goes to the list buffer.         *)
(***************************************************************************)
C13_HeadingsAreHeadings ==
    (/\ doc.pc = "run"
     /\ doc.pos >= 1
     /\ doc.body[doc.pos].el = "p"
     /\ IsHeadingStyle(doc.body[doc.pos].style)
     /\ Strip(ParagraphText(doc.body[doc.pos].p)) # <<>>)
    => /\ doc.current_list_items = <<>>
       /\ doc.html_parts # <<>>
       /\ doc.html_parts[Len(doc.html_parts)] =
              <<Line(0, (TagOpen(doc.config.heading_tag)
                            \o Entities(Strip(ParagraphText(doc.body[doc.pos].p))))
                         \o TagClose(doc.config.heading_tag))>>

(***************************************************************************)
(* Calls of the helper functions.  call holds the function, its arguments  *)
(* and, once the call is made, its result.                                 *)
(***************************************************************************)
\* The strings of at most n tokens over an alphabet.
Texts(alphabet, n) == UNION {[1..k -> alphabet] : k \in 0..n}

QuoteTypeLists == {DefaultQuoteTypes, <<"\"">>, <<"\"", "'">>}

ParagraphCalls ==
    {[fn |-> "convert_paragraph",
      b |-> ParagraphBlock("none", -1, style, TextParagraph(t)),
      config |-> Config("h3", "p", QuoteDetection(enabled, threshold, <<"blockquote">>, types),
                        SpecialDict(<<>>, <<>>), <<>>),
      pc |-> "ready"] :
        style \in {Normal, Style("Heading", 1)},
        t \in Texts({"\"", "'", "a"}, MaxText),
        enabled \in BOOLEAN,
        threshold \in 0..MaxThreshold,
        types \in QuoteTypeLists}

EscapeCalls ==
    {[fn |-> "escape_html", text |-> t, results |-> <<>>, pc |-> "ready"] :
        t \in Texts({"&", "<", ">", "\"", "'", ";", "a"}, MaxText)}

Rules ==
    {Rule(<<"a">>, <<"b">>, TRUE),
     Rule(<<"b">>, <<"c">>, TRUE),
     Rule(<<"b", "b">>, <<"a">>, TRUE),
     Rule(<<>>, <<"c">>, TRUE),
     Rule(<<"c">>, <<>>, TRUE),
     Rule(<<"a">>, <<"c", "b">>, FALSE)}

ReplacementCalls ==
    {[fn |-> "apply_replacements", full_html |-> t, replacements |-> rs, pc |-> "ready"] :
        t \in Texts({"a", "b", "A"}, MaxText),
        rs \in UNION {[1..k -> Rules] : k \in 0..MaxRules}}

\* One search term and one replace string, for a rule applied as a
\* case-sensitive rule and then as one that is not.
TemplateCalls ==
    {[fn |-> "replace_both_ways", full_html |-> t, search |-> <<"a">>, replace |-> r,
      results |-> <<>>, pc |-> "ready"] :
        t \in Texts({"a", "A", "b"}, MaxText),
        r \in Texts({"\\", "n", "1", "c"}, MaxRules)}

TableRows == UNION {[1..c -> {<<"x">>, <<" ", "<">>}] : c \in 1..2}

TableCalls ==
    {[fn |-> "convert_table", rows |-> rows, pc |-> "ready"] :
        rows \in UNION {[1..n -> TableRows] : n \in 0..MaxRows}}

CallsInit ==
    /\ call \in ParagraphCalls \cup EscapeCalls \cup ReplacementCalls \cup TemplateCalls
                 \cup TableCalls
    /\ doc = [pc |-> "idle"]
    /\ NoList
    /\ NoParagraph

Returned(c) ==
    /\ call' = c
    /\ UNCHANGED <<items, frames, html, pc, steps, para, hyperlinks, scan, walk, doc>>

\* html = self._convert_paragraph(paragraph)
CallConvertParagraph ==
    /\ call.pc = "ready"
    /\ call.fn = "convert_paragraph"
    /\ Returned([call EXCEPT !.pc = "done"] @@ [result |-> ConvertParagraph(call.b, call.config)])

\* _escape_html on a text, and once more on what it returned.
CallEscapeHtml ==
    /\ call.pc = "ready"
    /\ call.fn = "escape_html"
    /\ Returned([call EXCEPT
                    !.results = Append(@, EscapeHtml(IF @ = <<>> THEN call.text
                                                     ELSE @[Len(@)])),
                    !.pc = IF Len(call.results) = 1 THEN "done" ELSE "ready"])

\* full_html = self._apply_replacements(full_html)
CallApplyReplacements ==
    /\ call.pc = "ready"
    /\ call.fn = "apply_replacements"
    /\ IF ReplacementsRaise(call.replacements)
       THEN Returned([call EXCEPT !.pc = "error"])
       ELSE Returned([call EXCEPT !.pc = "done"]
                        @@ [result |-> ApplyReplacements(call.full_html, call.replacements)])

\* _apply_replacements on the same text with one rule, first case-sensitive,
\* then not.
CallReplaceBothWays ==
    /\ call.pc = "ready"
    /\ call.fn = "replace_both_ways"
    /\ LET rule == Rule(call.search, call.replace, call.results = <<>>)
       IN  IF ReplacementsRaise(<<rule>>)
           THEN Returned([call EXCEPT !.pc = "error"])
           ELSE Returned([call EXCEPT
                             !.results = Append(@, ApplyReplacements(call.full_html, <<rule>>)),
                             !.pc = IF Len(call.results) = 1 THEN "done" ELSE "ready"])

\* Lines 83-94 on a body that is this table alone: the string of the
\* table and the html_parts the dispatcher is left with.
CallConvertTable ==
    /\ call.pc = "ready"
    /\ call.fn = "convert_table"
    /\ Returned([call EXCEPT !.pc = "done"]
                   @@ [result |-> ConvertTable(call.rows),
                       html_parts |-> DocStep(StartDoc(<<TableBlock(call.rows)>>,
                                                       DefaultConfig)).html_parts])

CallsNext ==
    \/ CallConvertParagraph
    \/ CallEscapeHtml
    \/ CallApplyReplacements
    \/ CallReplaceBothWays
    \/ CallConvertTable

SpecCalls == CallsInit /\ [][CallsNext]_vars

(***************************************************************************)
(* C14: with quote detection enabled a regular paragraph is wrapped in     *)
(* the outer tag exactly when its trimmed text holds at least threshold    *)
(* quote characters, for every threshold and also with the default         *)
(* quote types.                                                            *)
(* Fails: the default quote_types of the source lists the double quote     *)
(* three times and the single quote twice, so a double quote counts as     *)
(* three characters and a single one as two.                               *)
(***************************************************************************)
\* The characters of the text that are one of the quote types.
QuoteCharacters(text, quote_types) ==
    Cardinality({k \in 1..Len(text) :
                    \E n \in 1..Len(quote_types) : text[k] = quote_types[n]})

C14_WrappedFromThreshold ==
    (/\ call.pc = "done"
     /\ call.fn = "convert_paragraph"
     /\ ~IsHeadingStyle(call.b.style)
     /\ Strip(ParagraphText(call.b.p)) # <<>>
     /\ call.config.quote_detection.enabled)
    => LET q == call.config.quote_detection
           text == Strip(ParagraphText(call.b.p))
           inner == (<<"<", "p", ">">> \o Entities(ParagraphText(call.b.p))) \o <<"</", "p", ">">>
       IN  call.result =
              IF QuoteCharacters(text, q.quote_types) >= q.threshold
              THEN (<<"<", "blockquote", ">">> \o inner) \o <<"</", "blockquote", ">">>
              ELSE inner

(***************************************************************************)
(* C15: for every text that contains '&', _escape_html applied twice       *)
(* gives another string than _escape_html applied once.                    *)
(***************************************************************************)
C15_EscapeTwiceDiffers ==
    (/\ call.pc = "done"
     /\ call.fn = "escape_html"
     /\ \E k \in 1..Len(call.text) : call.text[k] = "&")
    => call.results[2] # call.results[1]

C15_Witness ==
    /\ call.pc = "done"
    /\ call.fn = "escape_html"
    /\ call.text = <<"a", "&", "<">>
    /\ call.results[1] = <<"a", "&", "a", "m", "p", ";", "&", "l", "t", ";">>
    /\ call.results[2] = <<"a", "&", "a", "m", "p", ";", "a", "m", "p", ";",
                           "&", "a", "m", "p", ";", "l", "t", ";">>

(***************************************************************************)
(* C16: the search-replace rules are applied in list order, each to the    *)
(* text the one before it produced, so a rule finds what an earlier rule   *)
(* wrote; a rule with an empty search term changes nothing.                *)
(***************************************************************************)
\* The text after the first n rules, from the text after the first n - 1.
RECURSIVE AfterRules(_, _, _)
AfterRules(text, rules, n) ==
    IF n = 0 THEN text
    ELSE LET before == AfterRules(text, rules, n - 1)
         IN  IF rules[n].search = <<>> THEN before
             ELSE ReplaceStr(before, rules[n].search, rules[n].replace,
                             rules[n].case_sensitive)

C16_RulesInListOrder ==
    (call.pc = "done" /\ call.fn = "apply_replacements")
    => /\ call.result = AfterRules(call.full_html, call.replacements, Len(call.replacements))
       /\ (\A n \in 1..Len(call.replacements) : call.replacements[n].search = <<>>)
             => call.result = call.full_html

C16_Witness ==
    /\ call.pc = "done"
    /\ call.fn = "apply_replacements"
    /\ call.full_html = <<"a", "b", "A">>
    /\ call.replacements = <<Rule(<<"a">>, <<"b">>, TRUE), Rule(<<"b", "b">>, <<"a">>, TRUE)>>
    /\ call.result = <<"a", "A">>

(***************************************************************************)
(* C17: for a table of n rows _convert_table returns '' when n = 0, and    *)
(* the dispatcher then emits no fragment; for n = 1 a <thead> with one     *)
(* <tr> of <th> cells and no <tbody>; for n >= 2 that <thead> and then a   *)
(* <tbody> with n - 1 <tr> rows of <td> cells; rows and cells are in       *)
(* source order.                                                           *)
(***************************************************************************)
\* The positions of the lines that are the one token tok at indentation ind.
LinesOf(ls, ind, tok) ==
    SelectSeq([k \in 1..Len(ls) |-> k], LAMBDA k : ls[k] = Line(ind, <<tok>>))

CellLine(tag, text) ==
    Line(6, (<<"<", tag, ">">> \o Entities(Strip(text))) \o <<"</", tag, ">">>)

C17_TableShape ==
    (call.pc = "done" /\ call.fn = "convert_table")
    => LET ls == call.result
           rows == call.rows
           n == Len(rows)
           O == LinesOf(ls, 4, "<tr>")
           Q == LinesOf(ls, 4, "</tr>")
       IN  IF n = 0 THEN ls = <<>> /\ call.html_parts = <<>>
           ELSE /\ call.html_parts = <<ls>>
                /\ ls[1] = Line(0, <<"<table>">>)
                /\ ls[Len(ls)] = Line(0, <<"</table>">>)
                /\ Len(O) = n
                /\ Len(Q) = n
                /\ \A k \in 1..n :
                      /\ Q[k] = O[k] + Len(rows[k]) + 1
                      /\ \A c \in 1..Len(rows[k]) :
                            ls[O[k] + c] = CellLine(IF k = 1 THEN "th" ELSE "td", rows[k][c])
                /\ LinesOf(ls, 2, "<thead>") = <<2>>
                /\ O[1] = 3
                /\ LinesOf(ls, 2, "</thead>") = <<Q[1] + 1>>
                /\ Len(ls) = Q[n] + 2
                /\ IF n = 1
                   THEN /\ LinesOf(ls, 2, "<tbody>") = <<>>
                        /\ LinesOf(ls, 2, "</tbody>") = <<>>
                   ELSE /\ LinesOf(ls, 2, "<tbody>") = <<Q[1] + 2>>
                        /\ O[2] = Q[1] + 3
                        /\ \A k \in 2..(n - 1) : O[k + 1] = Q[k] + 1
                        /\ LinesOf(ls, 2, "</tbody>") = <<Q[n] + 1>>

C17_Witness ==
    /\ call.pc = "done"
    /\ call.fn = "convert_table"
    /\ call.rows = <<<<<<"x">>, <<" ", "<">>>>, <<<<" ", "<">>, <<"x">>>>, <<<<"x">>, <<"x">>>>>>
    /\ Len(call.result) = 18
    /\ call.result[5] = Line(6, <<"<", "th", ">", "&", "l", "t", ";", "</", "th", ">">>)
    /\ call.result[10] = Line(6, <<"<", "td", ">", "&", "l", "t", ";", "</", "td", ">">>)

(***************************************************************************)
(* C18: after a field-begin marker, when an instruction run that is no     *)
(* HYPERLINK instruction, or an end marker, comes before any run whose     *)
(* instruction matches HYPERLINK "<url>", the field is aborted: the scan   *)
(* step taken at that begin marker adds no span.                           *)
(* Fails: the search for the instruction only stops at a HYPERLINK         *)
(* instruction and at separate and end markers; a run with another         *)
(* instruction is passed over, and a HYPERLINK instruction after it still  *)
(* gives the field its span.                                               *)
(***************************************************************************)
MatchesHyperlink(r) == IsHyperlinkInstr(r) /\ MatchUrl(r.instr) # NoUrl

\* The field that begins at run b is to be aborted.
AbortedAt(all_runs, b) ==
    /\ all_runs[b].fld = "begin"
    /\ \E j \in (b + 1)..Len(all_runs) :
          /\ \/ all_runs[j].instr # <<>> /\ ~IsHyperlinkInstr(all_runs[j])
             \/ all_runs[j].fld = "end"
          /\ \A k \in (b + 1)..(j - 1) : ~MatchesHyperlink(all_runs[k])

C18_AbortedFieldNoSpan ==
    [][(/\ scan.pc = "fields"
        /\ scan.i < Len(para.runs)
        /\ AbortedAt(para.runs, scan.i + 1))
       => scan'.hyperlinks = scan.hyperlinks]_vars

(***************************************************************************)
(* C19: after the run walk every span that was never visited and has a     *)
(* fallback text is appended as a space and <a href=url>fallback</a>, in   *)
(* extraction order and after all output of the walk; a span never         *)
(* visited without fallback text adds nothing, and a visited span is not   *)
(* appended again.                                                         *)
(***************************************************************************)
\* Span k has a member among the runs of paragraph.runs.
Visited(p, hl, k) ==
    \E n \in 1..Len(ParagraphRuns(p)) :
        \E m \in 1..Len(hl[k].runs) : hl[k].runs[m] = ParagraphRuns(p)[n]

RECURSIVE NeverVisitedAnchors(_, _, _)
NeverVisitedAnchors(p, hl, k) ==
    IF k > Len(hl) THEN <<>>
    ELSE (IF ~Visited(p, hl, k) /\ hl[k].text # <<>>
          THEN ((<<" ", "<a href=\"">> \o hl[k].url) \o <<"\">">>) \o hl[k].text \o <<"</a>">>
          ELSE <<>>) \o NeverVisitedAnchors(p, hl, k + 1)

C19_NeverVisitedAppended ==
    [][(walk.pc = "walk" /\ walk'.pc = "done")
       => walk'.out = Concat(AfterLoop(walk).result) \o NeverVisitedAnchors(para, hyperlinks, 1)]_vars

(***************************************************************************)
(* C20: in the string of the List Builder every <li> of an item is a       *)
(* direct child of a list element of the item's kind.  Items of one frame  *)
(* at its level that follow each other, with or without a nested sub-list  *)
(* between them, share one list element when they are of one kind; when    *)
(* the kind changes, the open list is closed and a list of the new kind    *)
(* is opened right after it.                                               *)
(***************************************************************************)
ListOpeners == {"<ul>", "<ol>"}

ListClosers == {"</ul>", "</ol>"}

\* List elements opened minus list elements closed among toks[p..q].
ListBalance(toks, p, q) ==
    Cardinality({k \in p..q : toks[k] \in ListOpeners})
        - Cardinality({k \in p..q : toks[k] \in ListClosers})

\* The position of the innermost list element open at position p (0: none).
ParentList(toks, p) ==
    LET os == {q \in 1..(p - 1) :
                  /\ toks[q] \in ListOpeners
                  /\ \A r \in q..(p - 1) : ListBalance(toks, q, r) >= 1}
    IN  IF os = {} THEN 0 ELSE CHOOSE q \in os : \A r \in os : q >= r

\* The position of the tag that closes the list element opened at q (0: none).
ListClose(toks, q) ==
    LET cs == {r \in q..Len(toks) : toks[r] \in ListClosers /\ ListBalance(toks, q, r) = 0}
    IN  IF cs = {} THEN 0 ELSE CHOOSE r \in cs : \A c \in cs : r <= c

\* Items j < n are at one level and only deeper items lie between them.
NextAtLevel(its, j, n) ==
    /\ j < n
    /\ its[j].level = its[n].level
    /\ \A k \in (j + 1)..(n - 1) : its[k].level > its[j].level

C20_ItemsInListOfTheirKind ==
    pc = "done" =>
        LET toks == Tokens(html)
            lp == LiPos(toks)
        IN  /\ Len(lp) <= Len(items)
            /\ \A j \in 1..Len(lp) :
                  LET q == ParentList(toks, lp[j])
                  IN  /\ q > 0
                      /\ toks[q] = OpenTag(items[j].kind)
                      /\ LiBalance(toks, q, lp[j] - 1) = 0
            /\ \A j, n \in 1..Len(lp) :
                  NextAtLevel(items, j, n) =>
                      IF items[j].kind = items[n].kind
                      THEN ParentList(toks, lp[n]) = ParentList(toks, lp[j])
                      ELSE /\ ParentList(toks, lp[n]) = ListClose(toks, ParentList(toks, lp[j])) + 1
                           /\ LiClose(toks, lp[j]) = ParentList(toks, lp[n]) - 2

C20_Witness ==
    /\ pc = "done"
    /\ [k \in 1..Len(items) |-> <<items[k].level, items[k].kind>>]
          = <<<<0, "bullet">>, <<1, "number">>, <<0, "bullet">>, <<0, "number">>>>
    /\ Tokens(html) = <<"<ul>", "<li>", "A", "<ol>", "<li>", "B", "</li>", "</ol>", "</li>",
                        "<li>", "C", "</li>", "</ul>", "<ol>", "<li>", "D", "</li>", "</ol>">>

(***************************************************************************)
(* C21: every string a frame of _build_nested_list returns is              *)
(* tag-balanced: each <ul>, <ol> and <li> in it is closed by its own       *)
(* closing tag, innermost first, whether the frame returns at the end of   *)
(* the items, on an item of a lower level or on the break for an item of   *)
(* a higher level.                                                         *)
(***************************************************************************)
ListCloserOf(t) ==
    CASE t = "<ul>" -> "</ul>"
      [] t = "<ol>" -> "</ol>"
      [] t = "<li>" -> "</li>"

RECURSIVE ListWellNested(_, _)
\* Every closing tag closes the innermost open element and nothing stays
\* open.
ListWellNested(toks, open) ==
    IF toks = <<>> THEN open = <<>>
    ELSE LET t == Head(toks)
         IN  IF t \in ListOpeners \cup {"<li>"}
             THEN ListWellNested(Tail(toks), Append(open, t))
             ELSE IF t \in ListClosers \cup {"</li>"}
             THEN /\ open # <<>>
                  /\ ListCloserOf(open[Len(open)]) = t
                  /\ ListWellNested(Tail(toks), SubSeq(open, 1, Len(open) - 1))
             ELSE ListWellNested(Tail(toks), open)

\* The frame on top of the stack is about to return.
Returning ==
    /\ pc = "run"
    /\ \/ AtEnd(items, Top(frames))
       \/ GoingUp(items, Top(frames))
       \/ Deeper(items, Top(frames))

\* The string the frame on top of the stack returns.
Returned_html == Join(ClosedParts(Top(frames)))

C21_FrameStringsBalanced ==
    /\ Returning => ListWellNested(Tokens(Returned_html), <<>>)
    /\ pc = "done" => ListWellNested(Tokens(html), <<>>)

\* The outermost frame breaks on an item of a higher level, after a nested
\* frame returned on that item: it returns a list with a sub-list in it.
C21_Witness ==
    /\ pc = "run"
    /\ Len(frames) = 1
    /\ Deeper(items, Top(frames))
    /\ Tokens(Returned_html)
          = <<"<ul>", "<li>", "A", "<ol>", "<li>", "B", "</li>", "</ol>", "</li>", "</ul>">>

(***************************************************************************)
(* C22: the List Builder is never called with an empty buffer.  After      *)
(* each body element the tentative list kind of the dispatcher is set      *)
(* exactly when the item buffer is not empty, and the buffer holds the     *)
(* items of the list paragraphs since the last paragraph or table that is  *)
(* no list item: a flush before the end of the document leaves the buffer  *)
(* empty and the kind cleared.                                             *)
(***************************************************************************)
\* The number of list paragraphs the blocks end with.
RECURSIVE ListSuffix(_)
ListSuffix(bs) ==
    IF bs # <<>> /\ IsListParagraph(bs[Len(bs)])
    THEN 1 + ListSuffix(SubSeq(bs, 1, Len(bs) - 1))
    ELSE 0

\* The items of the list paragraphs the blocks end with.
OpenRun(bs) ==
    [k \in 1..ListSuffix(bs) |-> ItemOf(bs[Len(bs) - ListSuffix(bs) + k])]

C22_BufferAndKind ==
    /\ doc.pc \in {"run", "done"} => \A k \in 1..Len(doc.built) : doc.built[k] # <<>>
    /\ doc.pc = "run" =>
          /\ (doc.current_list_type # "none") <=> (doc.current_list_items # <<>>)
          /\ doc.current_list_items = OpenRun(Blocks(SubSeq(doc.body, 1, doc.pos)))

\* A list paragraph, a table that flushes it, and a list paragraph again.
C22_Witness ==
    /\ doc.pc = "run"
    /\ doc.pos = 3
    /\ doc.body[2].el = "tbl"
    /\ Len(doc.built) = 1
    /\ Len(doc.current_list_items) = 1
    /\ doc.current_list_type = "number"

(***************************************************************************)
(* C23: a paragraph that is no list item and whose trimmed text is empty   *)
(* adds no fragment of its own; the step that handles it hands a           *)
(* non-empty list buffer to the List Builder and leaves the buffer empty   *)
(* and the kind cleared.  So the list paragraphs right before and right    *)
(* after such a paragraph end one buffer and start the next, and their     *)
(* two list fragments follow each other in html_parts.                     *)
(***************************************************************************)
EmptyParagraph(b) ==
    /\ b.el = "p"
    /\ ~GetListInfo(b).some
    /\ Strip(ParagraphText(b.p)) = <<>>

\* The step on an empty paragraph: the flush and nothing else.
EmptyParagraphFlushes ==
    (doc.pc = "run" /\ doc.pos < Len(doc.body) /\ EmptyParagraph(ThisBlock) /\ doc' # doc)
        => /\ doc'.pos = doc.pos + 1
           /\ doc'.current_list_items = <<>>
           /\ doc'.current_list_type = "none"
           /\ IF doc.current_list_items # <<>>
              THEN /\ doc'.built = Append(doc.built, doc.current_list_items)
                   /\ doc'.html_parts
                         = Append(doc.html_parts, CreateListHtml(doc.current_list_items))
              ELSE /\ doc'.built = doc.built
                   /\ doc'.html_parts = doc.html_parts

\* At the end: the list paragraphs around an empty paragraph are in two
\* buffers that follow each other, and so are their fragments.
SeparateLists ==
    doc.pc = "done" =>
        \A k \in 2..(Len(doc.body) - 1) :
            (/\ EmptyParagraph(doc.body[k])
             /\ IsListParagraph(doc.body[k - 1])
             /\ IsListParagraph(doc.body[k + 1]))
            => \E j \in 1..(Len(doc.built) - 1), m \in 1..(Len(doc.html_parts) - 1) :
                  /\ doc.built[j][Len(doc.built[j])] = ItemOf(doc.body[k - 1])
                  /\ doc.built[j + 1][1] = ItemOf(doc.body[k + 1])
                  /\ doc.html_parts[m] = CreateListHtml(doc.built[j])
                  /\ doc.html_parts[m + 1] = CreateListHtml(doc.built[j + 1])

C23_EmptyParagraphSplitsLists == [][EmptyParagraphFlushes]_vars /\ []SeparateLists

C23_Witness ==
    /\ doc.pc = "done"
    /\ Len(doc.body) = 3
    /\ IsListParagraph(doc.body[1])
    /\ EmptyParagraph(doc.body[2])
    /\ IsListParagraph(doc.body[3])
    /\ Len(doc.built) = 2
    /\ Len(doc.html_parts) = 2

(***************************************************************************)
(* C24: a run owned by a hyperlink span enters its group with underline    *)
(* false, whatever its own flag: the group of a hyperlink is never         *)
(* underlined, the pieces collected for an anchor hold no <u>, and in the  *)
(* string returned no <u> stands between an <a href= and its </a>.         *)
(***************************************************************************)
\* Anchors opened minus anchors closed among toks[1..k].
AnchorDepth(toks, k) ==
    Cardinality({j \in 1..k : toks[j] = "<a href=\""})
        - Cardinality({j \in 1..k : toks[j] = "</a>"})

C24_NoUnderlineInAnchor ==
    walk.pc \in {"walk", "done"} =>
        /\ walk.current_group.hyperlink.some => ~walk.current_group.underline
        /\ \A k \in 1..Len(walk.hyperlink_text) : ~Occurs(<<"<u>">>, walk.hyperlink_text[k])
        /\ \A k \in 1..Len(walk.out) : walk.out[k] = "<u>" => AnchorDepth(walk.out, k) = 0

\* An underlined run outside a hyperlink is written inside <u>; an
\* underlined bold run owned by a field hyperlink is written inside
\* <strong> alone.
C24_Witness ==
    /\ walk.pc = "done"
    /\ \E n \in 1..Len(para.runs) :
          /\ para.runs[n].underline
          /\ para.runs[n].t = <<"Go">>
          /\ RunHyperlink(hyperlinks, n).some
    /\ Occurs(<<"<u>">>, walk.out)
    /\ Occurs(<<"\">", "<strong>", "Go", "</strong>", "</a>">>, walk.out)

(***************************************************************************)
(* C25: _escape_html is the substitution made on every character at once:  *)
(* each '&', '<', '>', '"' and apostrophe of the text is written as its    *)
(* entity, once, every other character stays, and the '&' of an entity     *)
(* written for one of the other four is not escaped again.                 *)
(***************************************************************************)
C25_EscapeIsPerCharacter ==
    (call.fn = "escape_html" /\ Len(call.results) >= 1)
    => call.results[1] = Entities(call.text)

C25_Witness ==
    /\ call.fn = "escape_html"
    /\ call.text = <<">", "&", "\"">>
    /\ Len(call.results) = 1
    /\ call.results[1] = <<"&", "g", "t", ";", "&", "a", "m", "p", ";",
                           "&", "q", "u", "o", "t", ";">>

(***************************************************************************)
(* C26: every character of document text in the string _process_runs      *)
(* returns went through _escape_html once: no '<', '>', '"' or '&' of a    *)
(* run text, of a fallback text or of a URL stands in it as it is; every   *)
(* '&' in it starts an entity.                                             *)
(* Fails: _format_link writes the URL and, for a span never visited or     *)
(* without collected text, the fallback text as they are.                  *)
(***************************************************************************)
\* Whether an entity of _escape_html starts at position k of str.
EntityAt(str, k) ==
    \E c \in {"&", "<", ">", "\"", "'"} :
        /\ k + Len(Entity(c)) - 1 <= Len(str)
        /\ SubSeq(str, k, k + Len(Entity(c)) - 1) = Entity(c)

C26_NothingUnescaped ==
    walk.pc = "done" =>
        \A k \in 1..Len(walk.out) :
            /\ walk.out[k] \notin {"<", ">", "\""}
            /\ walk.out[k] = "&" => EntityAt(walk.out, k)

(***************************************************************************)
(* C27: a rule that is not case-sensitive replaces every occurrence of     *)
(* the search term, compared without regard to case, by the replace        *)
(* string as it is written, a backslash in it included: what it inserts    *)
(* is what the case-sensitive rule inserts.                                *)
(* Fails: pattern.sub reads the replace string as a template, so '\\n'     *)
(* inserts a line feed, two backslashes insert one, and a backslash        *)
(* before a digit or another letter, or at the end, raises re.error.       *)
(***************************************************************************)
C27_ReplaceStringLiteral ==
    (call.fn = "replace_both_ways" /\ call.pc \in {"done", "error"})
    => /\ call.pc = "done"
       /\ call.results[1] = ReplaceStr(call.full_html, call.search, call.replace, TRUE)
       /\ call.results[2] = ReplaceStr(call.full_html, call.search, call.replace, FALSE)
====
